---- MODULE Spec2Model ----
(***************************************************************************)
(* JobManager (fastapi_server/app/jobs/manager.py): the in-memory          *)
(* background job supervisor.  One state machine step is one step of the   *)
(* asyncio event loop: a coroutine runs from one suspension point to the   *)
(* next.  The manager's asyncio.Lock is only ever held between two points  *)
(* of the same step (no await occurs inside any `async with self._lock`    *)
(* block), so every locked block is part of one atomic step.               *)
(***************************************************************************)
EXTENDS Integers, FiniteSets, Sequences, TLC

\* ------------------------------------------------------------------ bounds
\* ids the manager can hand out
MaxJobs == 2
\* jobs created in the specifications that follow one job's whole lifecycle
JobCap == 1
\* hours the clock advances
MaxTime == 1
\* suspensions of a unit of work before it ends
MaxAwaits == 1
\* update_job calls made by callers of the manager
MaxCallerUpdates == 1
\* models the remote project lists
MaxModels == 2
\* get_progress calls a monitoring loop makes
MaxPolls == 2

\* --------------------------------------------------------- program values
\* progress is kept in hundredths: 100 stands for the float 1.0
ProgressOne == 100
ProgressZero == 0
\* create_job registers on_progress and on_complete: at most two callbacks
MaxCallbacks == 2

PENDING == "pending"
RUNNING == "running"
COMPLETED == "completed"
FAILED == "failed"
CANCELLED == "cancelled"
JobStatus == {PENDING, RUNNING, COMPLETED, FAILED, CANCELLED}
Terminal == {COMPLETED, FAILED, CANCELLED}

None == "None"
MsgCompleted == "job completed"
MsgCancelled == "job cancelled"
MsgFailed == "error: E"

Ids == 1..MaxJobs

\* the unit of work handed to create_job: how it ends, how many times it
\* suspends before that, and what it does with a CancelledError
Plans == {"return_V", "return_None", "raise_E"}
OnCancel == {"propagate", "swallow"}
Work ==
  {w \in [plan : Plans, awaits : 0..MaxAwaits, onCancel : OnCancel] :
     w.awaits = 0 => w.onCancel = "propagate"}
NoWork == [plan |-> "return_None", awaits |-> 0, onCancel |-> "propagate"]

\* states of the asyncio.Task running _wrap_task
TaskDone == {"finished", "cancelled"}
CallbackPhase == {"cb_running", "cb_completed", "cb_failed", "cb_cancelled"}
TaskState == {"none", "created", "work"} \cup CallbackPhase \cup TaskDone

VARIABLES
  jobs,        \* self._jobs: job id -> JobInfo
  tasks,       \* keys of self._tasks
  callbacks,   \* self._callbacks: job id -> number of registered callbacks
  nextId,      \* the next fresh job id (uuid4)
  tstate,      \* per id: where the wrapper task is suspended
  mustCancel,  \* per id: a cancellation is pending delivery to the task
  cancelling,  \* per id: task.cancel() was requested at least once
  cbIdx,       \* per id: index of the callback the update loop awaits
  cbLen,       \* per id: length of the callback list that loop iterates
  work,        \* per id: the task coroutine passed to create_job
  now,         \* datetime.utcnow(), in hours
  cancelRet,   \* return value of the last cancel_job call
  shutPc,      \* position of the shutdown() coroutine
  shutTasks,   \* the tasks shutdown() gathers
  shutActive,  \* ids that were Pending/Running when shutdown() was called
  updCount,    \* number of update_job calls made by callers so far
  recording,   \* per id: the callbacks given to create_job keep a list of
               \* what they are invoked with
  seen,        \* per id: that list, one <<callback index, status>> per call
  failIdx,     \* per id: index of the registered callback that raises (0: none)
  owner,       \* per id: the user_id argument create_job was called with
  held,        \* per id: status of the JobInfo a suspended update_job still
               \* references after cleanup took it out of the table
  lock,        \* self._lock: 0 when free, else the id whose update holds it
  unlocked,    \* the tables some step has written without holding the lock
  cleanupRet,  \* return value of the last cleanup_completed_jobs call
  gpPc,        \* AutoPilotMonitor.get_progress: where the call is suspended
  gpProject,   \* get_progress: the parsed project response, once received
  gpRet,       \* get_progress: the AutoPilotProgress it returned last
  monJob,      \* id of the job whose task is a monitoring task (0: none)
  monKind,     \* which monitoring task it is
  monOnProgress, \* the on_progress argument of monitor_until_complete
  monTarget,   \* the job_id argument of monitor_until_complete
  monPc,       \* where the monitoring task is suspended
  monClient,   \* AutoPilotMonitor._client: none, open or closed
  monExit,     \* how the monitoring loop was left
  monRet,      \* the AutoPilotProgress the loop returned
  monPushed,   \* the arguments of the last update_job call of the loop
  monFetches,  \* get_progress calls the loop has made
  monPushes,   \* update_job calls the loop has made
  apiRet       \* the response to the last request to the jobs router

vars == <<jobs, tasks, callbacks, nextId, tstate, mustCancel, cancelling,
          cbIdx, cbLen, work, now, cancelRet, shutPc, shutTasks, shutActive,
          updCount, recording, seen, failIdx, owner, held, lock, unlocked,
          cleanupRet, gpPc, gpProject, gpRet, monJob, monKind,
          monOnProgress, monTarget, monPc, monClient, monExit, monRet,
          monPushed, monFetches, monPushes, apiRet>>

\* the state of the AutoPilot monitor (fastapi_server/app/jobs/autopilot.py)
progressVars == <<gpPc, gpProject, gpRet>>
\* the state of a monitoring task
loopVars ==
  <<monJob, monKind, monOnProgress, monTarget, monPc, monClient, monExit,
    monRet, monPushed, monFetches, monPushes>>
\* the state outside the job manager
monitorVars == <<progressVars, loopVars, apiRet>>
\* the state of the job manager
managerVars ==
  <<jobs, tasks, callbacks, nextId, tstate, mustCancel, cancelling, cbIdx,
    cbLen, work, now, cancelRet, shutPc, shutTasks, shutActive, updCount,
    recording, seen, failIdx, owner, held, lock, unlocked, cleanupRet>>

\* ---------------------------------------------------------------- helpers
Min(a, b) == IF a < b THEN a ELSE b
Max(a, b) == IF a > b THEN a ELSE b

\* the clamp without its lower bound
ClampUpperOnly(p) == Min(p, ProgressOne)

\* min(max(progress, 0.0), 1.0)
Clamp(p) == Min(Max(p, ProgressZero), ProgressOne)

\* the job_type and metadata arguments of create_job
JobType == "job_type"
Metadata == "metadata"

\* create_job appends on_progress and then on_complete to the one callback
\* list of the job: given both, on_complete is the last entry of the list
OnCompleteIndex == MaxCallbacks

\* JobInfo(...) as built by create_job for the fresh id
NewJobInfo(id, t, u) ==
  [job_id |-> id, job_type |-> JobType, status |-> PENDING,
   progress |-> ProgressZero, message |-> "", result |-> None,
   error |-> None, created_at |-> t, updated_at |-> t, user_id |-> u,
   metadata |-> Metadata]

\* update_job without its `is not None` tests on result and error
UpdateRecStoresNone(rec, f, t) ==
  [job_id     |-> rec.job_id,
   job_type   |-> rec.job_type,
   status     |-> IF "status" \in DOMAIN f THEN f.status ELSE rec.status,
   progress   |-> IF "progress" \in DOMAIN f THEN Clamp(f.progress)
                                             ELSE rec.progress,
   message    |-> IF "message" \in DOMAIN f THEN f.message ELSE rec.message,
   result     |-> IF "result" \in DOMAIN f THEN f.result ELSE None,
   error      |-> IF "error" \in DOMAIN f THEN f.error ELSE None,
   created_at |-> rec.created_at,
   updated_at |-> t,
   user_id    |-> rec.user_id,
   metadata   |-> rec.metadata]

\* the body of update_job under the lock, on one record; f holds the
\* arguments that are not None
UpdateRec(rec, f, t) ==
  [job_id     |-> rec.job_id,
   job_type   |-> rec.job_type,
   status     |-> IF "status" \in DOMAIN f THEN f.status ELSE rec.status,
   progress   |-> IF "progress" \in DOMAIN f THEN Clamp(f.progress)
                                             ELSE rec.progress,
   message    |-> IF "message" \in DOMAIN f THEN f.message ELSE rec.message,
   result     |-> IF "result" \in DOMAIN f THEN f.result ELSE rec.result,
   error      |-> IF "error" \in DOMAIN f THEN f.error ELSE rec.error,
   created_at |-> rec.created_at,
   updated_at |-> t,
   user_id    |-> rec.user_id,
   metadata   |-> rec.metadata]

\* update_job's locked block on the table: unknown ids are left alone
UpdateJobs(jm, j, f) ==
  IF j \in DOMAIN jm
    THEN [k \in DOMAIN jm |-> IF k = j THEN UpdateRec(jm[k], f, now) ELSE jm[k]]
    ELSE jm

\* callbacks = self._callbacks.get(job_id, []) after a successful update
NCallbacks(jm, j) ==
  IF j \in DOMAIN jm /\ j \in DOMAIN callbacks THEN callbacks[j] ELSE 0

\* the arguments of the four update_job calls of _wrap_task
RunningFields == [status |-> RUNNING]
RetVal(plan) == IF plan = "return_V" THEN "V" ELSE None
\* the Completed update without progress=1.0
CompletedFieldsNoProgress(plan) ==
  IF RetVal(plan) = None
    THEN [status |-> COMPLETED, message |-> MsgCompleted]
    ELSE [status |-> COMPLETED, message |-> MsgCompleted,
          result |-> RetVal(plan)]

CompletedFields(plan) ==
  IF RetVal(plan) = None
    THEN [status |-> COMPLETED, progress |-> ProgressOne,
          message |-> MsgCompleted]
    ELSE [status |-> COMPLETED, progress |-> ProgressOne,
          message |-> MsgCompleted, result |-> RetVal(plan)]
CancelledFields == [status |-> CANCELLED, message |-> MsgCancelled]
\* the Failed update without error=str(e)
FailedFieldsNoError == [status |-> FAILED, message |-> MsgFailed]

FailedFields == [status |-> FAILED, error |-> "E", message |-> MsgFailed]

\* ------------------------------------------- one event-loop step of a task
\* A configuration is what a step of the wrapper of job j leaves behind.
Cfg(ts, ci, cl, aw, jm, sn) ==
  [ts |-> ts, ci |-> ci, cl |-> cl, aw |-> aw, jobs |-> jm, seen |-> sn]

\* the status a callback reads from the JobInfo it is handed: the record is
\* passed by reference, so this is its status when the callback is invoked
ObjStatus(jm, j) == IF j \in DOMAIN jm THEN jm[j].status ELSE held[j]

\* `await callback(job)` for the callbacks after..last of the list, in order
Invoked(sn, jm, j, after, last) ==
  IF recording[j] /\ last > after
    THEN sn \o [i \in 1..(last - after) |-> <<after + i, ObjStatus(jm, j)>>]
    ELSE sn

\* a loop whose try/except encloses the whole `for`: the first callback that
\* raises ends it
LastInvokedUntilFailure(j, after, n) ==
  IF failIdx[j] >= after /\ failIdx[j] \in 1..n THEN failIdx[j] ELSE n

\* the last callback the loop of update_job reaches once the callbacks up to
\* `after` have ended: the try/except around each call keeps the loop going
LastInvoked(j, after, n) == n

\* the callback loop of update_job past index `after`: it suspends in any of
\* the remaining callbacks (a callback may also return or raise at once)
Suspended(j, phase, after, n, aw, jm, sn) ==
  {Cfg(phase, k, n, aw, jm, Invoked(sn, jm, j, after, k)) :
     k \in (after + 1)..LastInvoked(j, after, n)}

\* the invocations made when that loop runs to its end
LoopDone(j, after, n, jm, sn) ==
  Invoked(sn, jm, j, after, LastInvoked(j, after, n))

\* an update_job call that ends the wrapper: mutate, run callbacks, return
TerminalUpdate(j, jm, f, phase, aw, sn) ==
  LET jm2 == UpdateJobs(jm, j, f)
      n == NCallbacks(jm, j)
  IN  Suspended(j, phase, 0, n, aw, jm2, sn)
        \cup {Cfg("finished", 0, 0, aw, jm2, LoopDone(j, 0, n, jm2, sn))}

\* `result = await task` and what follows it, from the point where the work
\* is (re)entered without an exception
WorkOutcome(j, jm, aw, sn) ==
  IF aw > 0
    THEN {Cfg("work", 0, 0, aw - 1, jm, sn)}
    ELSE IF work[j].plan = "raise_E"
           THEN TerminalUpdate(j, jm, FailedFields, "cb_failed", 0, sn)
           ELSE TerminalUpdate(j, jm, CompletedFields(work[j].plan),
                               "cb_completed", 0, sn)

\* _wrap_task entering `await task` without its update to Running
StartOutcomeNoRunningUpdate(j) ==
  WorkOutcome(j, jobs, work[j].awaits, seen[j])

\* first step of _wrap_task: update to Running, callbacks, then the work
StartOutcome(j) ==
  LET jm2 == UpdateJobs(jobs, j, RunningFields)
      n == NCallbacks(jobs, j)
  IN  Suspended(j, "cb_running", 0, n, work[j].awaits, jm2, seen[j])
        \cup WorkOutcome(j, jm2, work[j].awaits,
                         LoopDone(j, 0, n, jm2, seen[j]))

\* a suspended callback returns (or raises, which update_job only logs)
CallbackOutcome(j) ==
  LET sn2 == LoopDone(j, cbIdx[j], cbLen[j], jobs, seen[j])
  IN  Suspended(j, tstate[j], cbIdx[j], cbLen[j], work[j].awaits, jobs,
                seen[j])
        \cup (IF tstate[j] = "cb_running"
                THEN WorkOutcome(j, jobs, work[j].awaits, sn2)
                ELSE {Cfg("finished", 0, 0, work[j].awaits, jobs, sn2)})

\* CancelledError raised at the await of a suspended callback
CallbackCancelOutcome(j) ==
  IF tstate[j] = "cb_completed"
    THEN TerminalUpdate(j, jobs, CancelledFields, "cb_cancelled",
                        work[j].awaits, seen[j])
    ELSE {Cfg("cancelled", 0, 0, work[j].awaits, jobs, seen[j])}

\* the wrapper without its `except asyncio.CancelledError` clause
WorkCancelOutcomeNoHandler(j) ==
  IF work[j].onCancel = "propagate"
    THEN {Cfg("cancelled", 0, 0, work[j].awaits, jobs, seen[j])}
    ELSE WorkOutcome(j, jobs, work[j].awaits, seen[j])

\* CancelledError thrown into the suspended work
WorkCancelOutcome(j) ==
  IF work[j].onCancel = "propagate"
    THEN TerminalUpdate(j, jobs, CancelledFields, "cb_cancelled",
                        work[j].awaits, seen[j])
    ELSE WorkOutcome(j, jobs, work[j].awaits, seen[j])

\* update_job with its callback loop inside the `async with self._lock` block
LockHeldInCallbacks(j, c) == IF c.ts \in CallbackPhase THEN j ELSE 0

\* the lock when a step of the wrapper of job j suspends or ends: the
\* `async with self._lock` block of update_job is left before any callback
LockAfter(j, c) == 0

\* what a step of the wrapper of job j that ends in configuration c does to
\* the manager
ApplyTask(j, c) ==
  /\ lock \in {0, j}
  /\ tstate' = [tstate EXCEPT ![j] = c.ts]
  /\ cbIdx' = [cbIdx EXCEPT ![j] = c.ci]
  /\ cbLen' = [cbLen EXCEPT ![j] = c.cl]
  /\ work' = [work EXCEPT ![j].awaits = c.aw]
  /\ jobs' = c.jobs
  /\ seen' = [seen EXCEPT ![j] = c.seen]
  /\ held' = [held EXCEPT ![j] = IF c.ts \in CallbackPhase THEN @ ELSE None]
  /\ lock' = LockAfter(j, c)
  /\ mustCancel' = [mustCancel EXCEPT ![j] = FALSE]
  /\ UNCHANGED <<tasks, callbacks, nextId, cancelling, now, cancelRet,
                 shutPc, shutTasks, shutActive, updCount, failIdx, owner,
                 unlocked, cleanupRet, recording>>

Apply(j, c) == ApplyTask(j, c) /\ UNCHANGED monitorVars

\* what the get_progress variables hold while no response or no snapshot is
\* there
NoProject ==
  [stage |-> <<>>, done |-> FALSE, target |-> 0,
   created |-> [kind |-> "absent", ago |-> 0]]
NoProgress ==
  [stage |-> None, progress_percent |-> 0, models_completed |-> 0,
   total_models |-> 0, estimated_time_remaining |-> {},
   error_message |-> None]
\* what apiRet holds before any request
NoResponse ==
  [handler |-> "none", code |-> 0, body |-> {}, called |-> FALSE]
\* what monPushed holds before the loop has called update_job
NoPush == [progress |-> 0, message |-> <<>>]

\* ---------------------------------------------------------------- actions
Init ==
  /\ jobs = <<>>
  /\ tasks = {}
  /\ callbacks = <<>>
  /\ nextId = 1
  /\ tstate = [j \in Ids |-> "none"]
  /\ mustCancel = [j \in Ids |-> FALSE]
  /\ cancelling = [j \in Ids |-> FALSE]
  /\ cbIdx = [j \in Ids |-> 0]
  /\ cbLen = [j \in Ids |-> 0]
  /\ work = [j \in Ids |-> NoWork]
  /\ now = 0
  /\ cancelRet = FALSE
  /\ shutPc = "idle"
  /\ shutTasks = {}
  /\ shutActive = {}
  /\ updCount = 0
  /\ recording = [j \in Ids |-> FALSE]
  /\ seen = [j \in Ids |-> <<>>]
  /\ failIdx = [j \in Ids |-> 0]
  /\ owner = [j \in Ids |-> None]
  /\ held = [j \in Ids |-> None]
  /\ lock = 0
  /\ unlocked = {}
  /\ cleanupRet = 0
  /\ gpPc = "idle"
  /\ gpProject = NoProject
  /\ gpRet = NoProgress
  /\ monJob = 0
  /\ monKind = "none"
  /\ monOnProgress = "none"
  /\ monTarget = 0
  /\ monPc = "idle"
  /\ monClient = "none"
  /\ monExit = "none"
  /\ monRet = NoProgress
  /\ monPushed = NoPush
  /\ monFetches = 0
  /\ monPushes = 0
  /\ apiRet = NoResponse

\* create_job: store the Pending record and the callbacks under the lock,
\* then schedule the task and store its handle after the lock is released.
\* u is the user_id, n the number of callbacks given, fi which of them
\* raises, rec whether they keep a list of their invocations
CreateJobTask(w, n, u, fi, rec) ==
  /\ nextId <= MaxJobs
  /\ lock = 0
  /\ jobs' = (nextId :> NewJobInfo(nextId, now, u)) @@ jobs
  /\ callbacks' = (nextId :> n) @@ callbacks
  /\ tasks' = tasks \cup {nextId}
  /\ unlocked' = unlocked \cup {"tasks"}
  /\ tstate' = [tstate EXCEPT ![nextId] = "created"]
  /\ work' = [work EXCEPT ![nextId] = w]
  /\ owner' = [owner EXCEPT ![nextId] = u]
  /\ failIdx' = [failIdx EXCEPT ![nextId] = fi]
  /\ recording' = [recording EXCEPT ![nextId] = rec]
  /\ nextId' = nextId + 1
  /\ UNCHANGED <<mustCancel, cancelling, cbIdx, cbLen, now, cancelRet,
                 shutPc, shutTasks, shutActive, updCount, seen, held, lock,
                 cleanupRet>>

\* create_job for a task that is not a monitoring task
CreateJob(w, n, u, fi, rec) ==
  CreateJobTask(w, n, u, fi, rec) /\ UNCHANGED monitorVars

\* the task's first step when no cancellation is pending
TaskStart(j) ==
  /\ tstate[j] = "created"
  /\ ~mustCancel[j]
  /\ \E c \in StartOutcome(j) : Apply(j, c)

\* the task's first step with a cancellation pending: CancelledError is
\* thrown into the coroutine before any of its body has run
TaskStartCancelled(j) ==
  /\ tstate[j] = "created"
  /\ mustCancel[j]
  /\ Apply(j, Cfg("cancelled", 0, 0, work[j].awaits, jobs, seen[j]))

CallbackResume(j) ==
  /\ tstate[j] \in CallbackPhase
  /\ ~mustCancel[j]
  /\ \E c \in CallbackOutcome(j) : Apply(j, c)

CallbackCancelled(j) ==
  /\ tstate[j] \in CallbackPhase
  /\ mustCancel[j]
  /\ \E c \in CallbackCancelOutcome(j) : Apply(j, c)

WorkResume(j) ==
  /\ tstate[j] = "work"
  /\ ~mustCancel[j]
  /\ \E c \in WorkOutcome(j, jobs, work[j].awaits, seen[j]) : Apply(j, c)

WorkCancelled(j) ==
  /\ tstate[j] = "work"
  /\ mustCancel[j]
  /\ \E c \in WorkCancelOutcome(j) : Apply(j, c)

\* the principals that create jobs
Users == {"A", "B"}

\* get_jobs_by_user without its filter
GetJobsByUserUnfiltered(u) == DOMAIN jobs

\* get_jobs_by_user: the ids of the records it returns
GetJobsByUser(u) == {j \in DOMAIN jobs : jobs[j].user_id = u}

\* get_active_jobs keeping only the Running records
GetActiveJobsRunningOnly == {j \in DOMAIN jobs : jobs[j].status = RUNNING}

\* get_active_jobs: the ids of the records it returns
GetActiveJobs == {j \in DOMAIN jobs : jobs[j].status \in {PENDING, RUNNING}}

\* cancel_job without its `if not task.done()` test
CancelJobNoDoneTest(j) ==
  /\ IF j \in tasks
       THEN /\ mustCancel' = [mustCancel EXCEPT ![j] = TRUE]
            /\ cancelling' = [cancelling EXCEPT ![j] = TRUE]
            /\ cancelRet' = TRUE
       ELSE /\ cancelRet' = FALSE
            /\ UNCHANGED <<mustCancel, cancelling>>
  /\ UNCHANGED monitorVars
  /\ UNCHANGED <<jobs, tasks, callbacks, nextId, tstate, cbIdx, cbLen, work,
                 now, shutPc, shutTasks, shutActive, updCount, seen, failIdx,
                 owner, held, lock, unlocked, cleanupRet, recording>>

\* cancel_job: what it does to the manager
CancelSignal(j) ==
  /\ IF j \in tasks /\ tstate[j] \notin TaskDone
       THEN /\ mustCancel' = [mustCancel EXCEPT ![j] = TRUE]
            /\ cancelling' = [cancelling EXCEPT ![j] = TRUE]
            /\ cancelRet' = TRUE
       ELSE /\ cancelRet' = FALSE
            /\ UNCHANGED <<mustCancel, cancelling>>
  /\ UNCHANGED <<jobs, tasks, callbacks, nextId, tstate, cbIdx, cbLen, work,
                 now, shutPc, shutTasks, shutActive, updCount, seen, failIdx,
                 owner, held, lock, unlocked, cleanupRet, recording>>

\* cancel_job called by a caller of the manager
CancelJob(j) == CancelSignal(j) /\ UNCHANGED monitorVars

\* the age test of cleanup_completed_jobs without its status test
ExpiredAnyStatus(maxAge) ==
  {j \in DOMAIN jobs : now - jobs[j].updated_at > maxAge}

\* cleanup_completed_jobs(max_age_hours): the ids it collects in to_remove
Expired(maxAge) ==
  {j \in DOMAIN jobs : /\ jobs[j].status \in Terminal
                       /\ now - jobs[j].updated_at > maxAge}

Cleanup(maxAge) ==
  LET rm == Expired(maxAge)
  IN  /\ lock = 0
      /\ jobs' = [k \in DOMAIN jobs \ rm |-> jobs[k]]
      /\ tasks' = tasks \ rm
      /\ callbacks' = [k \in DOMAIN callbacks \ rm |-> callbacks[k]]
      /\ cleanupRet' = Cardinality(rm)
      /\ held' = [j \in Ids |->
                    IF j \in rm /\ tstate[j] \in CallbackPhase
                      THEN jobs[j].status ELSE held[j]]
      /\ UNCHANGED monitorVars
      /\ UNCHANGED <<nextId, tstate, mustCancel, cancelling, cbIdx, cbLen,
                     work, now, cancelRet, shutPc, shutTasks, shutActive,
                     updCount, seen, failIdx, owner, lock, unlocked,
                     recording>>

\* shutdown(): cancel every task that is not done, then gather them all
ShutdownCall ==
  /\ shutPc # "waiting"
  /\ mustCancel' = [j \in Ids |->
                      IF j \in tasks /\ tstate[j] \notin TaskDone
                        THEN TRUE ELSE mustCancel[j]]
  /\ cancelling' = [j \in Ids |->
                      IF j \in tasks /\ tstate[j] \notin TaskDone
                        THEN TRUE ELSE cancelling[j]]
  /\ shutTasks' = tasks
  /\ shutActive' = {j \in DOMAIN jobs : jobs[j].status \in {PENDING, RUNNING}}
  /\ shutPc' = IF tasks = {} THEN "returned" ELSE "waiting"
  /\ UNCHANGED monitorVars
  /\ UNCHANGED <<jobs, tasks, callbacks, nextId, tstate, cbIdx, cbLen, work,
                 now, cancelRet, updCount, seen, failIdx, owner, held, lock,
                 unlocked, cleanupRet, recording>>

\* shutdown() gathering without return_exceptions=True: the gather raises
\* out of shutdown() as soon as one of the tasks has ended cancelled
ShutdownReturnFirstException ==
  /\ shutPc = "waiting"
  /\ \/ /\ \E j \in shutTasks : tstate[j] = "cancelled"
        /\ shutPc' = "raised"
     \/ /\ \A j \in shutTasks : tstate[j] = "finished"
        /\ shutPc' = "returned"
  /\ UNCHANGED monitorVars
  /\ UNCHANGED <<jobs, tasks, callbacks, nextId, tstate, mustCancel,
                 cancelling, cbIdx, cbLen, work, now, cancelRet, shutTasks,
                 shutActive, updCount, seen, failIdx, owner, held, lock,
                 unlocked, cleanupRet, recording>>

\* `await asyncio.gather(*self._tasks.values(), return_exceptions=True)`
\* returns: every gathered task is done, however it ended
ShutdownReturn ==
  /\ shutPc = "waiting"
  /\ \A j \in shutTasks : tstate[j] \in TaskDone
  /\ shutPc' = "returned"
  /\ UNCHANGED monitorVars
  /\ UNCHANGED <<jobs, tasks, callbacks, nextId, tstate, mustCancel,
                 cancelling, cbIdx, cbLen, work, now, cancelRet, shutTasks,
                 shutActive, updCount, seen, failIdx, owner, held, lock,
                 unlocked, cleanupRet, recording>>

\* update_job called by a caller of the manager (not by the wrapper)
CallerArgs ==
  {[progress |-> 150], [progress |-> 0 - 50],
   [progress |-> 50, message |-> "m"],
   [status |-> RUNNING], [status |-> COMPLETED, result |-> "R"],
   [error |-> "X"]}

\* (the callbacks this call runs are followed up to their return: a caller
\* whose callback suspends is not a task the manager knows)
CallerUpdateJob(j, f) ==
  /\ updCount < MaxCallerUpdates
  /\ lock = 0
  /\ updCount' = updCount + 1
  /\ jobs' = UpdateJobs(jobs, j, f)
  /\ seen' = [seen EXCEPT ![j] =
                LoopDone(j, 0, NCallbacks(jobs, j), jobs', @)]
  /\ UNCHANGED monitorVars
  /\ UNCHANGED <<tasks, callbacks, nextId, tstate, mustCancel, cancelling,
                 cbIdx, cbLen, work, now, cancelRet, shutPc, shutTasks,
                 shutActive, failIdx, owner, held, lock, unlocked,
                 cleanupRet, recording>>

Tick ==
  /\ now < MaxTime
  /\ now' = now + 1
  /\ UNCHANGED monitorVars
  /\ UNCHANGED <<jobs, tasks, callbacks, nextId, tstate, mustCancel,
                 cancelling, cbIdx, cbLen, work, cancelRet, shutPc,
                 shutTasks, shutActive, updCount, seen, failIdx, owner, held,
                 lock, unlocked, cleanupRet, recording>>

\* a step of the wrapper task with no cancellation pending
TaskRun(j) ==
  \/ TaskStart(j)
  \/ CallbackResume(j)
  \/ WorkResume(j)

\* a step of the wrapper task that delivers a pending cancellation
TaskInterrupt(j) ==
  \/ TaskStartCancelled(j)
  \/ CallbackCancelled(j)
  \/ WorkCancelled(j)

TaskStep(j) == TaskRun(j) \/ TaskInterrupt(j)

\* ------------------------------------------ AutoPilotMonitor.get_progress
StagePreparing == "preparing"
StageEda == "eda"
StageFeature == "feature_engineering"
StageModeling == "modeling"
StageCompleted == "completed"
StageFailed == "failed"

\* `project.get("targetedModelCount", 0) or 20`
DefaultTotal == 20
\* progress_percent of a run that is done, and the cap of one that is not
PercentDone == 100
PercentCap == 99

\* a stage string is the sequence of its characters
WordEda == <<"E", "D", "A">>
WordModelingLower == <<"m", "o", "d", "e", "l", "i", "n", "g">>
WordModelingMixed == <<"M", "o", "d", "e", "l", "i", "n", "G">>
WordFitting == <<"f", "i", "t", "t", "i", "n", "g">>
WordFeature == <<"F", "e", "a", "t", "u", "r", "e", "s">>
WordCompleted == <<"c", "o", "m", "p", "l", "e", "t", "e", "d">>
WordAim == <<"a", "i", "m">>
StageWords == {WordEda, WordModelingLower, WordModelingMixed, WordFitting,
               WordFeature, WordCompleted, WordAim}
\* the stage strings the remote project reports: nothing (the key is
\* absent: project.get("stage", "")), one word, or two words joined by ":"
StageStrings ==
  {<<>>} \cup StageWords
         \cup {a \o <<":">> \o b : a \in StageWords, b \in StageWords}
\* the "created" field of the project: absent (or empty), a string
\* datetime.fromisoformat rejects, or an ISO timestamp lying `ago` seconds
\* before the clock reading of the call (negative: the remote clock is
\* ahead)
CreatedValues ==
  {[kind |-> "absent", ago |-> 0], [kind |-> "unparsable", ago |-> 0]}
    \cup {[kind |-> "iso", ago |-> e] : e \in {0 - 5, 0, 7, 60}}
\* the project resource: stage string, autopilotDone, targetedModelCount
\* (0 stands for a count that is absent, null or zero), created.  The
\* counts are chosen so that models / total * 100 is a whole number
Projects ==
  [stage : StageStrings, done : BOOLEAN, target : {0, 1, 4},
   created : CreatedValues]

\* str.lower() on one character
LowerChar(c) ==
  CASE c = "A" -> "a" [] c = "D" -> "d" [] c = "E" -> "e"
    [] c = "F" -> "f" [] c = "G" -> "g" [] c = "M" -> "m"
    [] OTHER -> c
\* str.lower()
Lower(s) == [i \in DOMAIN s |-> LowerChar(s[i])]
\* `key in string`
IsSubstring(key, s) ==
  \E i \in 0..(Len(s) - Len(key)) : SubSeq(s, i + 1, i + Len(key)) = key

KeyEda == <<"e", "d", "a">>
KeyModeling == <<"m", "o", "d", "e", "l", "i", "n", "g">>
KeyFitting == <<"f", "i", "t", "t", "i", "n", "g">>
KeyFeature == <<"f", "e", "a", "t", "u", "r", "e">>
KeyComplete == <<"c", "o", "m", "p", "l", "e", "t", "e">>
\* stage_mapping of _parse_stage, in the order the dict is written
StageMapping ==
  << <<KeyEda, StageEda>>, <<KeyModeling, StageModeling>>,
     <<KeyFitting, StageModeling>>, <<KeyFeature, StageFeature>>,
     <<KeyComplete, StageCompleted>> >>

\* the loop of _parse_stage from entry i on, s being the lower-cased string
RECURSIVE ParseFrom(_, _)
ParseFrom(s, i) ==
  IF i > Len(StageMapping) THEN StagePreparing
  ELSE IF IsSubstring(StageMapping[i][1], s) THEN StageMapping[i][2]
  ELSE ParseFrom(s, i + 1)

\* _parse_stage with a loop that keeps going after a match: the last
\* matching entry decides
RECURSIVE ParseBack(_, _)
ParseBack(s, i) ==
  IF i < 1 THEN StagePreparing
  ELSE IF IsSubstring(StageMapping[i][1], s) THEN StageMapping[i][2]
  ELSE ParseBack(s, i - 1)
ParseStageLastMatch(s) == ParseBack(Lower(s), Len(StageMapping))

\* _parse_stage comparing the keys with the string as it was received
ParseStageCaseSensitive(s) == ParseFrom(s, 1)

\* _parse_stage: the first key of stage_mapping, in its order, found in the
\* lower-cased string
ParseStage(s) == ParseFrom(Lower(s), 1)

TotalModels(pr) == IF pr.target = 0 THEN DefaultTotal ELSE pr.target

\* progress_percent without the min(..., 99.0)
PercentUncapped(pr, m) ==
  IF pr.done THEN PercentDone ELSE (m * 100) \div TotalModels(pr)

\* progress_percent: 100.0 when autopilotDone, else
\* min(models_completed / total_models * 100, 99.0)
Percent(pr, m) ==
  IF pr.done THEN PercentDone
  ELSE Min((m * 100) \div TotalModels(pr), PercentCap)

\* int(x) for x = a / b with b > 0: rounds towards zero
Trunc(a, b) == IF a >= 0 THEN a \div b ELSE 0 - ((0 - a) \div b)

\* _estimate_remaining_time without the max(..., 0)
EstimateRemainingTimeUnclamped(progress, pr) ==
  IF progress <= 0 THEN {}
  ELSE IF pr.created.kind # "iso" THEN {}
  ELSE {Trunc(pr.created.ago * (100 - progress), progress)}

\* _estimate_remaining_time(progress, project): an empty set stands for
\* None.  elapsed / (progress / 100) - elapsed is
\* elapsed * (100 - progress) / progress
EstimateRemainingTime(progress, pr) ==
  IF progress <= 0 THEN {}
  ELSE IF pr.created.kind # "iso" THEN {}
  ELSE {Max(Trunc(pr.created.ago * (100 - progress), progress), 0)}

\* the AutoPilotProgress built from both responses; m = len(models).
\* The percentage is kept as a whole number (rounded down)
ProgressOf(pr, m) ==
  [stage            |-> IF pr.done THEN StageCompleted
                                   ELSE ParseStage(pr.stage),
   progress_percent |-> Percent(pr, m),
   models_completed |-> m,
   total_models     |-> TotalModels(pr),
   estimated_time_remaining |-> EstimateRemainingTime(Percent(pr, m), pr),
   error_message    |-> None]

\* how an awaited remote query ends: a response with a 2xx status and a JSON
\* body; a response whose status makes raise_for_status raise
\* HTTPStatusError; an exception out of client.get (connection, timeout);
\* a body .json() cannot parse; CancelledError thrown at the await
QueryOutcomes == {"ok", "http_status", "transport", "bad_body", "cancelled"}
QueryFailures == {"http_status", "transport", "bad_body"}

\* str(e) of the exception; httpx timeouts carry an empty message
ErrorText(o) ==
  CASE o = "http_status" -> "status error"
    [] o = "transport" -> ""
    [] o = "bad_body" -> "invalid json"

\* the snapshot both except clauses build
FailedProgress(o) ==
  [stage |-> StageFailed, progress_percent |-> 0, models_completed |-> 0,
   total_models |-> 0, estimated_time_remaining |-> {},
   error_message |-> ErrorText(o)]

\* get_progress with `except httpx.HTTPStatusError` as its only clause
QueryFailedStatusOnly(o) ==
  IF o = "http_status"
    THEN /\ gpPc' = "returned"
         /\ gpRet' = FailedProgress(o)
    ELSE /\ gpPc' = "raised"
         /\ gpRet' = NoProgress

\* an exception inside the try block of get_progress: HTTPStatusError and
\* every other Exception are turned into a Failed snapshot
QueryFailed(o) ==
  /\ gpPc' = "returned"
  /\ gpRet' = FailedProgress(o)

\* CancelledError is not an Exception: it leaves get_progress
QueryCancelled ==
  /\ gpPc' = "raised"
  /\ gpRet' = NoProgress

\* get_progress is called: it takes the client and awaits the project query
GetProgressCall ==
  /\ gpPc \in {"idle", "returned", "raised"}
  /\ gpPc' = "project"
  /\ gpProject' = NoProject
  /\ gpRet' = NoProgress
  /\ UNCHANGED apiRet
  /\ UNCHANGED loopVars
  /\ UNCHANGED managerVars

\* the project query ends with outcome o and, if ok, body pr
ProjectResponse(o, pr) ==
  /\ gpPc = "project"
  /\ CASE o = "ok" -> /\ gpPc' = "models"
                      /\ gpProject' = pr
                      /\ gpRet' = NoProgress
       [] o = "cancelled" -> QueryCancelled /\ gpProject' = NoProject
       [] OTHER -> QueryFailed(o) /\ gpProject' = NoProject
  /\ UNCHANGED apiRet
  /\ UNCHANGED loopVars
  /\ UNCHANGED managerVars

\* the models query ends with outcome o and, if ok, a list of m models
ModelsResponse(o, m) ==
  /\ gpPc = "models"
  /\ CASE o = "ok" -> /\ gpPc' = "returned"
                      /\ gpRet' = ProgressOf(gpProject, m)
       [] o = "cancelled" -> QueryCancelled
       [] OTHER -> QueryFailed(o)
  /\ UNCHANGED gpProject
  /\ UNCHANGED apiRet
  /\ UNCHANGED loopVars
  /\ UNCHANGED managerVars

NextProgress ==
  \/ GetProgressCall
  \/ \E o \in QueryOutcomes, pr \in Projects : ProjectResponse(o, pr)
  \/ \E o \in QueryOutcomes, m \in 0..MaxModels : ModelsResponse(o, m)

\* ------------------------------------------------------ monitoring tasks
\* the two monitoring coroutines handed to create_job:
\* create_autopilot_monitor_task, which runs monitor_until_complete, and
\* monitor_task of the create_autopilot_monitor route
MonitorKinds == {"until_complete", "route"}
\* the on_progress argument: absent, a coroutine function that returns, or
\* one that raises
OnProgressKinds == {"none", "returns", "raises"}
\* a monitoring coroutine returns its last snapshot
MonitorWork == [plan |-> "return_V", awaits |-> 0, onCancel |-> "propagate"]
\* the project responses a monitoring loop is given
LoopProjects ==
  {[stage |-> WordModelingMixed, done |-> FALSE, target |-> 4,
    created |-> [kind |-> "iso", ago |-> 60]],
   [stage |-> WordEda, done |-> FALSE, target |-> 0,
    created |-> [kind |-> "absent", ago |-> 0]],
   [stage |-> WordCompleted, done |-> FALSE, target |-> 4,
    created |-> [kind |-> "iso", ago |-> 60]],
   [stage |-> WordCompleted, done |-> TRUE, target |-> 4,
    created |-> [kind |-> "iso", ago |-> 60]]}

\* update_job(job_id, progress=progress.progress_percent / 100,
\*            message=f"{stage}: {models_completed}/{total_models} models")
PushArgs(snap) ==
  [progress |-> (snap.progress_percent * ProgressOne) \div 100,
   message  |-> <<snap.stage, snap.models_completed, snap.total_models>>]

\* the monitoring task as the current state has it
MonNow ==
  [pc |-> monPc, gp |-> gpPc, proj |-> gpProject, last |-> gpRet,
   client |-> monClient, exit |-> monExit, ret |-> monRet,
   pushed |-> monPushed, nf |-> monFetches, np |-> monPushes]

\* what a step leaves behind: the monitoring task m and the configuration
\* c of the wrapper around it
Outcome(m, c) == [m |-> m, w |-> c]
\* the monitoring task suspends at pc
Waiting(m, pc, ci, cl, jm, sn) ==
  Outcome([m EXCEPT !.pc = pc], Cfg("work", ci, cl, 0, jm, sn))

\* the project_id a monitoring task is created for
ProjectId == "project_id"

\* what the monitoring coroutine returns once its loop has ended with
\* snapshot snap: monitor_until_complete (and create_autopilot_monitor_task
\* around it) returns the snapshot, monitor_task of the route a dict made
\* of the project id, the stage value and models_completed
Returned(kind, snap) ==
  IF kind = "route"
    THEN [project_id |-> ProjectId, status |-> snap.stage,
          models_completed |-> snap.models_completed]
    ELSE snap

\* the update _wrap_task makes when `await task` has returned value v
CompletedWith(v) ==
  [status |-> COMPLETED, progress |-> ProgressOne, message |-> MsgCompleted,
   result |-> v]

\* a wrapper that takes a returned snapshot of stage Failed for a failure
AfterCloseFailedStageFails(j, m, jm, sn) ==
  LET bad == m.exit = "raised"
               \/ (m.exit = "returned" /\ m.ret.stage = StageFailed)
      f == CASE bad -> FailedFields
             [] m.exit = "returned" -> CompletedWith(Returned(monKind, m.ret))
             [] OTHER -> CancelledFields
      ph == CASE bad -> "cb_failed"
              [] m.exit = "returned" -> "cb_completed"
              [] OTHER -> "cb_cancelled"
  IN  {Outcome([m EXCEPT !.pc = "exited"], c) :
         c \in TerminalUpdate(j, jm, f, ph, 0, sn)}

\* the coroutine has ended: `result = await task` of _wrap_task returns or
\* raises, and the wrapper makes its last update
AfterClose(j, m, jm, sn) ==
  LET f == CASE m.exit = "returned" ->
                  CompletedWith(Returned(monKind, m.ret))
             [] m.exit = "raised" -> FailedFields
             [] OTHER -> CancelledFields
      ph == CASE m.exit = "returned" -> "cb_completed"
              [] m.exit = "raised" -> "cb_failed"
              [] OTHER -> "cb_cancelled"
  IN  {Outcome([m EXCEPT !.pc = "exited"], c) :
         c \in TerminalUpdate(j, jm, f, ph, 0, sn)}

\* the coroutine with close() called after the loop has returned instead of
\* in a finally block
ExitLoopNoFinally(j, m, jm, sn, kind) ==
  IF m.client = "open" /\ kind = "returned"
    THEN LET m2 == [m EXCEPT !.exit = kind, !.client = "closed"]
         IN  {Waiting(m2, "close", 0, 0, jm, sn)}
               \cup AfterClose(j, m2, jm, sn)
    ELSE AfterClose(j, [m EXCEPT !.exit = kind], jm, sn)

\* the loop is left the way `kind` says and `finally: await monitor.close()`
\* runs: close() awaits aclose() if there is a client that is not closed
\* (the client reports is_closed from the moment aclose() is entered)
ExitLoop(j, m, jm, sn, kind) ==
  IF m.client = "open"
    THEN LET m2 == [m EXCEPT !.exit = kind, !.client = "closed"]
         IN  {Waiting(m2, "close", 0, 0, jm, sn)}
               \cup AfterClose(j, m2, jm, sn)
    ELSE AfterClose(j, [m EXCEPT !.exit = kind], jm, sn)

\* a loop that returns on a Completed snapshot only and polls again after a
\* Failed one
AfterCallbacksRetryAfterFailure(j, m, jm, sn) ==
  IF m.last.stage = StageCompleted
    THEN ExitLoop(j, [m EXCEPT !.ret = m.last], jm, sn, "returned")
    ELSE {Waiting(m, "sleep", 0, 0, jm, sn)}

\* `if progress.stage in (COMPLETED, FAILED): return progress`, else
\* `await asyncio.sleep(...)`
AfterCallbacks(j, m, jm, sn) ==
  IF m.last.stage \in {StageCompleted, StageFailed}
    THEN ExitLoop(j, [m EXCEPT !.ret = m.last], jm, sn, "returned")
    ELSE {Waiting(m, "sleep", 0, 0, jm, sn)}

\* `if on_progress: await on_progress(progress)`
OnProgress(j, m, jm, sn) ==
  CASE monOnProgress = "returns" ->
         {Waiting(m, "on_progress", 0, 0, jm, sn)}
           \cup AfterCallbacks(j, m, jm, sn)
    [] monOnProgress = "raises" -> ExitLoop(j, m, jm, sn, "raised")
    [] OTHER -> AfterCallbacks(j, m, jm, sn)

\* the callback loop of the update_job call of the loop, past index `after`
\* of the n callbacks registered for the job it updates
PushCallbacks(j, m, jm, sn, after, n) ==
  IF n = 0 THEN OnProgress(j, m, jm, sn)
  ELSE {Waiting(m, "push_cb", k, n, jm,
                Invoked(sn, jm, monTarget, after, k)) :
          k \in (after + 1)..LastInvoked(monTarget, after, n)}
         \cup OnProgress(j, m, jm, LoopDone(monTarget, after, n, jm, sn))

\* the loop with its stage test ahead of the update_job call
PushUnlessTerminal(j, m, jm, sn) ==
  IF monKind = "until_complete"
       /\ m.last.stage \notin {StageCompleted, StageFailed}
    THEN LET args == PushArgs(m.last)
         IN  PushCallbacks(j, [m EXCEPT !.pushed = args, !.np = @ + 1],
                           UpdateJobs(jm, monTarget, args), sn, 0,
                           NCallbacks(jm, monTarget))
    ELSE AfterCallbacks(j, m, jm, sn)

\* the body of the loop after get_progress: monitor_until_complete pushes
\* the snapshot to the job manager, monitor_task of the route does not
Push(j, m, jm, sn) ==
  IF monKind = "until_complete"
    THEN LET args == PushArgs(m.last)
         IN  PushCallbacks(j, [m EXCEPT !.pushed = args, !.np = @ + 1],
                           UpdateJobs(jm, monTarget, args), sn, 0,
                           NCallbacks(jm, monTarget))
    ELSE AfterCallbacks(j, m, jm, sn)

\* get_progress returns snap
Fetched(j, m, jm, sn, snap) ==
  Push(j, [m EXCEPT !.last = snap, !.gp = "returned"], jm, sn)

\* get_progress with a clause that also catches CancelledError: thrown at
\* a query it becomes a Failed snapshot
InterruptedCaughtByGetProgress(j, m, jm, sn) ==
  CASE m.pc = "close" ->
         AfterClose(j, [m EXCEPT !.exit = "cancelled"], jm, sn)
    [] m.pc = "fetch" -> Fetched(j, m, jm, sn, FailedProgress("transport"))
    [] OTHER -> ExitLoop(j, m, jm, sn, "cancelled")

\* CancelledError thrown into the suspended monitoring coroutine: no clause
\* of the loop or of get_progress catches it; thrown at the aclose() of the
\* finally block it replaces the exit that was under way
Interrupted(j, m, jm, sn) ==
  CASE m.pc = "close" ->
         AfterClose(j, [m EXCEPT !.exit = "cancelled"], jm, sn)
    [] m.pc = "fetch" ->
         ExitLoop(j, [m EXCEPT !.gp = "raised"], jm, sn, "cancelled")
    [] OTHER -> ExitLoop(j, m, jm, sn, "cancelled")

\* `progress = await self.get_progress(project_id)`: _get_client creates
\* the client if there is none, then the project query is awaited
StartFetch(j, m, jm, sn) ==
  {Waiting([m EXCEPT !.gp = "project", !.proj = NoProject,
                     !.client = "open", !.nf = @ + 1],
           "fetch", 0, 0, jm, sn)}

MonApply(j, o) ==
  /\ ApplyTask(j, o.w)
  /\ monPc' = o.m.pc
  /\ gpPc' = o.m.gp
  /\ gpProject' = o.m.proj
  /\ gpRet' = o.m.last
  /\ monClient' = o.m.client
  /\ monExit' = o.m.exit
  /\ monRet' = o.m.ret
  /\ monPushed' = o.m.pushed
  /\ monFetches' = o.m.nf
  /\ monPushes' = o.m.np
  /\ UNCHANGED <<monJob, monKind, monOnProgress, monTarget, apiRet>>

\* create_job(task=<monitoring coroutine>): own tells whether the job_id
\* the coroutine was given is the id create_job hands out; n callbacks
CreateMonitor(kind, onp, own, n) ==
  /\ monJob = 0
  /\ kind = "route" => (onp = "none" /\ ~own)
  /\ CreateJobTask(MonitorWork, n, "A", 0, FALSE)
  /\ monJob' = nextId
  /\ monKind' = kind
  /\ monOnProgress' = onp
  /\ monTarget' = IF own THEN nextId ELSE 0
  /\ UNCHANGED progressVars
  /\ UNCHANGED <<monPc, monClient, monExit, monRet, monPushed, monFetches,
                 monPushes, apiRet>>

\* first step of the wrapper of a monitoring job: the Running update, its
\* callbacks, then into the coroutine up to the first query
MonTaskStart(j) ==
  /\ j = monJob
  /\ tstate[j] = "created"
  /\ ~mustCancel[j]
  /\ LET jm2 == UpdateJobs(jobs, j, RunningFields)
         n == NCallbacks(jobs, j)
     IN  \E o \in {Outcome(MonNow, c) :
                     c \in Suspended(j, "cb_running", 0, n, 0, jm2, seen[j])}
                    \cup StartFetch(j, MonNow, jm2,
                                    LoopDone(j, 0, n, jm2, seen[j])) :
           MonApply(j, o)

\* a callback of the Running update returns
MonCallbackResume(j) ==
  /\ j = monJob
  /\ tstate[j] = "cb_running"
  /\ ~mustCancel[j]
  /\ \E o \in {Outcome(MonNow, c) :
                 c \in Suspended(j, "cb_running", cbIdx[j], cbLen[j], 0,
                                 jobs, seen[j])}
                \cup StartFetch(j, MonNow, jobs,
                                LoopDone(j, cbIdx[j], cbLen[j], jobs,
                                         seen[j])) :
       MonApply(j, o)

\* a callback of the wrapper's last update returns
MonLastCallbackResume(j) ==
  /\ j = monJob
  /\ tstate[j] \in CallbackPhase \ {"cb_running"}
  /\ CallbackResume(j)

\* the project query of the loop ends with outcome o and, if ok, body pr
MonProjectResponse(j, o, pr) ==
  /\ j = monJob
  /\ tstate[j] = "work" /\ monPc = "fetch" /\ gpPc = "project"
  /\ ~mustCancel[j]
  /\ o # "cancelled"
  /\ \E out \in (IF o = "ok"
                   THEN {Waiting([MonNow EXCEPT !.gp = "models", !.proj = pr],
                                 "fetch", 0, 0, jobs, seen[j])}
                   ELSE Fetched(j, MonNow, jobs, seen[j],
                                FailedProgress(o))) :
       MonApply(j, out)

\* the models query of the loop ends with outcome o and, if ok, m models
MonModelsResponse(j, o, m) ==
  /\ j = monJob
  /\ tstate[j] = "work" /\ monPc = "fetch" /\ gpPc = "models"
  /\ ~mustCancel[j]
  /\ o # "cancelled"
  /\ \E out \in Fetched(j, MonNow, jobs, seen[j],
                        IF o = "ok" THEN ProgressOf(gpProject, m)
                                    ELSE FailedProgress(o)) :
       MonApply(j, out)

\* a callback awaited by the update_job call of the loop returns
MonPushCallbackResume(j) ==
  /\ j = monJob
  /\ tstate[j] = "work" /\ monPc = "push_cb"
  /\ ~mustCancel[j]
  /\ \E o \in PushCallbacks(j, MonNow, jobs, seen[j], cbIdx[j], cbLen[j]) :
       MonApply(j, o)

\* on_progress returns
MonOnProgressResume(j) ==
  /\ j = monJob
  /\ tstate[j] = "work" /\ monPc = "on_progress"
  /\ ~mustCancel[j]
  /\ \E o \in AfterCallbacks(j, MonNow, jobs, seen[j]) : MonApply(j, o)

\* asyncio.sleep returns: the next round of the loop
MonWake(j) ==
  /\ j = monJob
  /\ tstate[j] = "work" /\ monPc = "sleep"
  /\ ~mustCancel[j]
  /\ monFetches < MaxPolls
  /\ \E o \in StartFetch(j, MonNow, jobs, seen[j]) : MonApply(j, o)

\* aclose() returns
MonCloseResume(j) ==
  /\ j = monJob
  /\ tstate[j] = "work" /\ monPc = "close"
  /\ ~mustCancel[j]
  /\ \E o \in AfterClose(j, MonNow, jobs, seen[j]) : MonApply(j, o)

\* a pending cancellation is delivered to the monitoring coroutine
MonCancelled(j) ==
  /\ j = monJob
  /\ tstate[j] = "work" /\ monPc \notin {"idle", "exited"}
  /\ mustCancel[j]
  /\ \E o \in Interrupted(j, MonNow, jobs, seen[j]) : MonApply(j, o)

\* a monitoring job, its wrapper and cancel requests
NextMonitor ==
  \/ \E kind \in MonitorKinds, onp \in OnProgressKinds, own \in BOOLEAN,
        n \in 0..1 : CreateMonitor(kind, onp, own, n)
  \/ \E j \in Ids : MonTaskStart(j)
  \/ \E j \in Ids : TaskStartCancelled(j)
  \/ \E j \in Ids : MonCallbackResume(j)
  \/ \E j \in Ids : MonLastCallbackResume(j)
  \/ \E j \in Ids : CallbackCancelled(j)
  \/ \E j \in Ids, o \in QueryOutcomes, pr \in LoopProjects :
       MonProjectResponse(j, o, pr)
  \/ \E j \in Ids, o \in QueryOutcomes, m \in 0..MaxModels :
       MonModelsResponse(j, o, m)
  \/ \E j \in Ids : MonPushCallbackResume(j)
  \/ \E j \in Ids : MonOnProgressResume(j)
  \/ \E j \in Ids : MonWake(j)
  \/ \E j \in Ids : MonCloseResume(j)
  \/ \E j \in Ids : MonCancelled(j)
  \/ \E j \in Ids : CancelJob(j)

\* create_job in a specification that follows at most JobCap jobs
CreateTracked ==
  /\ nextId <= JobCap
  /\ \E w \in Work, n \in 0..MaxCallbacks : CreateJob(w, n, "A", 0, FALSE)

\* one job's lifecycle: creation, the wrapper task, cancel requests
NextCore ==
  \/ CreateTracked
  \/ \E j \in Ids : TaskStep(j)
  \/ \E j \in Ids : CancelJob(j)

\* every operation that leaves update_job to the wrapper
NextLife ==
  \/ NextCore
  \/ \E a \in 0..MaxTime : Cleanup(a)
  \/ ShutdownCall
  \/ ShutdownReturn
  \/ Tick

\* one job's lifecycle under periodic cleanup
NextClean ==
  \/ NextCore
  \/ \E a \in 0..MaxTime : Cleanup(a)
  \/ Tick

\* creation, the wrapper task and update_job calls made by callers
NextUpd ==
  \/ CreateTracked
  \/ \E j \in Ids : TaskRun(j)
  \/ \E j \in Ids, f \in CallerArgs : CallerUpdateJob(j, f)

\* create_job for work that does not suspend: what suspends is a callback
CreateQuick ==
  \E w \in {x \in Work : x.awaits = 0}, n \in 0..MaxCallbacks :
    CreateJob(w, n, "A", 0, FALSE)

\* several jobs whose callbacks suspend, and update_job calls by callers
NextPair ==
  \/ CreateQuick
  \/ \E j \in Ids : TaskStart(j)
  \/ \E j \in Ids : CallbackResume(j)
  \/ \E j \in Ids, f \in CallerArgs : CallerUpdateJob(j, f)

\* create_job with callbacks that keep a list of their invocations, one of
\* which may raise every time it is invoked
CreateObserved ==
  /\ nextId <= JobCap
  /\ \E w \in Work, n \in 0..MaxCallbacks :
       \E fi \in 0..n : CreateJob(w, n, "A", fi, TRUE)

\* one job's lifecycle as its callbacks see it
NextCb ==
  \/ CreateObserved
  \/ \E j \in Ids : TaskStep(j)
  \/ \E j \in Ids : CancelJob(j)

\* create_job by any principal, without callbacks, for work that returns a
\* value or raises and lets a cancellation through
CreateOwned ==
  \E w \in {x \in Work : x.plan # "return_None" /\ x.onCancel = "propagate"},
     u \in Users :
    CreateJob(w, 0, u, 0, FALSE)

\* several jobs of several principals behind the listing operations
NextList ==
  \/ CreateOwned
  \/ \E j \in Ids : TaskStart(j) \/ TaskStartCancelled(j)
  \/ \E j \in Ids : WorkResume(j) \/ WorkCancelled(j)
  \/ \E j \in Ids : CancelJob(j)
  \/ \E a \in 0..MaxTime : Cleanup(a)
  \/ Tick

\* ------------------------------------------------- the jobs API router
\* a path segment: a literal text, or the canonical text of the UUID of
\* job id
Lit(t) == [text |-> t, id |-> 0]
Uuid(j) == [text |-> "uuid", id |-> j]
\* an element of a route's path: a literal or a {parameter}
Fixed(t) == [text |-> t, param |-> FALSE]
Param(t) == [text |-> t, param |-> TRUE]

\* the routes of jobs_router in the order their decorators register them
RouteTable ==
  << [method |-> "GET", path |-> <<Fixed("jobs")>>,
      handler |-> "list_jobs"],
     [method |-> "GET", path |-> <<Fixed("jobs"), Param("job_id")>>,
      handler |-> "get_job"],
     [method |-> "POST",
      path |-> <<Fixed("jobs"), Param("job_id"), Fixed("cancel")>>,
      handler |-> "cancel_job"],
     [method |-> "POST",
      path |-> <<Fixed("jobs"), Fixed("autopilot-monitor")>>,
      handler |-> "create_autopilot_monitor"],
     [method |-> "GET", path |-> <<Fixed("jobs"), Fixed("active")>>,
      handler |-> "list_active_jobs"] >>

\* a path parameter matches any one segment, a literal matches itself
SegmentMatches(e, seg) == e.param \/ seg = Lit(e.text)
RouteMatches(r, req) ==
  /\ r.method = req.method
  /\ Len(r.path) = Len(req.path)
  /\ \A i \in 1..Len(r.path) : SegmentMatches(r.path[i], req.path[i])

\* the router hands a request to the first route, in registration order,
\* that matches its method and path
RECURSIVE DispatchFrom(_, _)
DispatchFrom(req, i) ==
  IF i > Len(RouteTable) THEN "none"
  ELSE IF RouteMatches(RouteTable[i], req) THEN RouteTable[i].handler
  ELSE DispatchFrom(req, i + 1)
Dispatch(req) == DispatchFrom(req, 1)

\* the requests made to the router
GetJobs == [method |-> "GET", path |-> <<Lit("jobs")>>]
GetJobById(j) == [method |-> "GET", path |-> <<Lit("jobs"), Uuid(j)>>]
GetActive == [method |-> "GET", path |-> <<Lit("jobs"), Lit("active")>>]
PostCancel(j) ==
  [method |-> "POST", path |-> <<Lit("jobs"), Uuid(j), Lit("cancel")>>]
Requests ==
  {GetJobs, GetActive} \cup {GetJobById(j) : j \in Ids}
                       \cup {PostCancel(j) : j \in Ids}

\* the owner test of get_job and cancel_job left out
NotOwnerNever(u, j) == FALSE
\* `if job.user_id != user_id`
NotOwner(u, j) == jobs[j].user_id # u

\* the status test of cancel_job left out
InvalidStateNever(j) == FALSE
\* `if job.status not in (JobStatus.PENDING, JobStatus.RUNNING)`
InvalidState(j) == jobs[j].status \notin {PENDING, RUNNING}

Response(h, code, body, called) ==
  [handler |-> h, code |-> code, body |-> body, called |-> called]

\* the response of a handler that leaves the manager alone; `job_id: UUID`
\* makes the framework answer 422 when the segment is not a UUID
ReadOnly(h, u, req) ==
  CASE h = "list_jobs" -> Response(h, 200, GetJobsByUser(u), FALSE)
    [] h = "list_active_jobs" ->
         Response(h, 200,
                  {j \in GetActiveJobs : jobs[j].user_id = u}, FALSE)
    [] h \in {"get_job", "cancel_job"} ->
         LET seg == req.path[2]
         IN  IF seg.text # "uuid" THEN Response(h, 422, {}, FALSE)
             ELSE IF ~(seg.id \in DOMAIN jobs)
               THEN Response(h, 404, {}, FALSE)
             ELSE IF NotOwner(u, seg.id)
               THEN Response(h, 403, {}, FALSE)
             ELSE IF h = "get_job" THEN Response(h, 200, {seg.id}, FALSE)
             ELSE Response(h, 400, {}, FALSE)
    [] OTHER -> Response(h, 404, {}, FALSE)

\* the request reaches `await job_manager.cancel_job(job_id)`
ReachesCancel(h, u, req) ==
  /\ h = "cancel_job"
  /\ req.path[2].text = "uuid"
  /\ req.path[2].id \in DOMAIN jobs
  /\ ~NotOwner(u, req.path[2].id)
  /\ ~InvalidState(req.path[2].id)

\* principal u sends request req: the router dispatches it and the handler
\* answers
HandleRequest(u, req) ==
  LET h == Dispatch(req)
  IN  /\ lock = 0
      /\ IF ReachesCancel(h, u, req)
           THEN /\ CancelSignal(req.path[2].id)
                /\ apiRet' = IF cancelRet'
                               THEN Response(h, 200, {req.path[2].id},
                                             TRUE)
                               ELSE Response(h, 500, {}, TRUE)
           ELSE /\ apiRet' = ReadOnly(h, u, req)
                /\ UNCHANGED managerVars
      /\ UNCHANGED <<progressVars, loopVars>>

\* create_job by either principal, in a specification that follows at most
\* JobCap jobs; the router sees a job only through its record, so work that
\* suspends once is enough to have the job seen in every status
CreateForApi ==
  /\ nextId <= JobCap
  /\ \E w \in {x \in Work : x.plan # "return_None"
                            /\ x.onCancel = "propagate"
                            /\ x.awaits = 1},
        n \in 0..1, u \in Users :
       CreateJob(w, n, u, 0, FALSE)

\* jobs of several principals behind the jobs router
NextApi ==
  \/ CreateForApi
  \/ \E j \in Ids : TaskStep(j)
  \/ \E u \in Users, req \in Requests : HandleRequest(u, req)

\* create_job with one callback, for work that suspends once and returns
\* a value
CreateSuspending ==
  \E w \in {x \in Work : x.plan = "return_V" /\ x.awaits = 1
                           /\ x.onCancel = "propagate"} :
    CreateJob(w, 1, "A", 0, FALSE)

\* several jobs, their wrappers, and update_job calls by callers
NextMerge ==
  \/ CreateSuspending
  \/ \E j \in Ids : TaskRun(j)
  \/ \E j \in Ids, f \in CallerArgs : CallerUpdateJob(j, f)

\* create_job with one callback, for work that suspends once, swallows a
\* cancellation thrown into it and then raises
CreateUnwinding ==
  \E w \in {x \in Work : x.plan = "raise_E" /\ x.awaits = 1
                           /\ x.onCancel = "swallow"} :
    CreateJob(w, 1, "A", 0, FALSE)

\* several jobs, cancel requests and shutdown()
NextGather ==
  \/ CreateUnwinding
  \/ \E j \in Ids : TaskStep(j)
  \/ \E j \in Ids : CancelJob(j)
  \/ ShutdownCall
  \/ ShutdownReturn

\* create_job with on_progress and on_complete, both keeping a list of
\* their invocations, for work that suspends once and returns a value
CreateWatched ==
  /\ nextId <= JobCap
  /\ \E w \in {x \in Work : x.plan = "return_V" /\ x.awaits = 1
                              /\ x.onCancel = "propagate"} :
       CreateJob(w, MaxCallbacks, "A", 0, TRUE)

\* one job whose callbacks suspend, and update_job calls by callers
NextWatch ==
  \/ CreateWatched
  \/ \E j \in Ids : TaskRun(j)
  \/ \E j \in Ids, f \in CallerArgs : CallerUpdateJob(j, f)

\* several jobs under shutdown()
NextShut ==
  \/ \E w \in Work, n \in 0..MaxCallbacks : CreateJob(w, n, "A", 0, FALSE)
  \/ \E j \in Ids : TaskStep(j)
  \/ \E j \in Ids : CancelJob(j)
  \/ ShutdownCall
  \/ ShutdownReturn

Next ==
  \/ NextLife
  \/ \E j \in Ids, f \in CallerArgs : CallerUpdateJob(j, f)

Spec == Init /\ [][Next]_vars
SpecLife == Init /\ [][NextLife]_vars
SpecCore == Init /\ [][NextCore]_vars
SpecClean == Init /\ [][NextClean]_vars
SpecPair == Init /\ [][NextPair]_vars
SpecCb == Init /\ [][NextCb]_vars
SpecList == Init /\ [][NextList]_vars
SpecApi == Init /\ [][NextApi]_vars
SpecMonitor == Init /\ [][NextMonitor]_vars

SpecProgress == Init /\ [][NextProgress]_vars
SpecUpd == Init /\ [][NextUpd]_vars
SpecShut == Init /\ [][NextShut]_vars
SpecMerge == Init /\ [][NextMerge]_vars
SpecWatch == Init /\ [][NextWatch]_vars
SpecGather == Init /\ [][NextGather]_vars

\* the event loop runs every task that is ready; awaited callbacks and
\* awaited work are assumed to resume
Fairness ==
  /\ \A j \in Ids : WF_vars(TaskStep(j))
  /\ WF_vars(ShutdownReturn)
FairSpecCore == SpecCore /\ Fairness
FairSpecGather == SpecGather /\ Fairness

TypeOK ==
  /\ nextId \in 1..(MaxJobs + 1)
  /\ DOMAIN jobs \subseteq Ids
  /\ tasks \subseteq Ids
  /\ \A j \in Ids : tstate[j] \in TaskState
  /\ \A j \in DOMAIN jobs : jobs[j].status \in JobStatus

\* ----------------------------------------------------------------- claims
InTable(j) == j \in DOMAIN jobs
Created(j) == tstate[j] # "none"

\* C1: once a job's status is Completed, Failed or Cancelled it never
\* changes again (no update_job calls from callers; callbacks may suspend).
C1_TerminalStatusNeverChanges ==
  [][\A j \in Ids :
       (InTable(j) /\ jobs[j].status \in Terminal /\ j \in DOMAIN jobs')
         => jobs'[j].status = jobs[j].status]_vars

\* C2: in every reachable state of every job record, result is set only if
\* status is Completed, error is set only if status is Failed, and result
\* and error are never both set.
C2_ResultAndErrorMatchStatus ==
  \A j \in DOMAIN jobs :
    /\ jobs[j].result # None => jobs[j].status = COMPLETED
    /\ jobs[j].error # None => jobs[j].status = FAILED
    /\ ~(jobs[j].result # None /\ jobs[j].error # None)

\* C3: a job created with work that returns value V, and that is never
\* cancelled, eventually has status Completed, progress 1.0 and result V.
C3_ReturningWorkCompletes ==
  \A j \in Ids :
    (Created(j) /\ work[j].plan \in {"return_V", "return_None"})
      ~> \/ cancelling[j]
         \/ /\ InTable(j)
            /\ jobs[j].status = COMPLETED
            /\ jobs[j].progress = ProgressOne
            /\ jobs[j].result = RetVal(work[j].plan)

C3_Witness ==
  \E j \in Ids :
    /\ work[j].plan = "return_V"
    /\ ~cancelling[j]
    /\ tstate[j] = "finished"
    /\ InTable(j)
    /\ jobs[j].status = COMPLETED
    /\ jobs[j].progress = ProgressOne
    /\ jobs[j].result = "V"

\* C4: a job created with work that raises error E eventually has status
\* Failed with error E's description, unless a cancellation ended the job
\* before the work raised; the wrapper task itself never ends with E (it
\* ends finished or cancelled), so nothing reaches the caller of create_job.
C4_RaisingWorkFails ==
  /\ \A j \in Ids :
       (Created(j) /\ work[j].plan = "raise_E")
         ~> \/ InTable(j) /\ jobs[j].status = FAILED /\ jobs[j].error = "E"
            \/ InTable(j) /\ jobs[j].status = CANCELLED
            \/ tstate[j] = "cancelled"
  /\ [](\A j \in Ids :
          (work[j].plan = "raise_E" /\ tstate[j] = "finished" /\ InTable(j))
            => jobs[j].status \in {FAILED, CANCELLED})

C4_Witness ==
  \E j \in Ids :
    /\ work[j].plan = "raise_E"
    /\ work[j].awaits = 0
    /\ tstate[j] = "finished"
    /\ InTable(j)
    /\ jobs[j].status = FAILED
    /\ jobs[j].error = "E"

\* C5: if cancel_job is called on a job whose work is suspended and the work
\* lets the cancellation propagate, the job eventually has status Cancelled.
C5_CancelSuspendedWork ==
  \A j \in Ids :
    (tstate[j] = "work" /\ mustCancel[j] /\ work[j].onCancel = "propagate")
      ~> (InTable(j) /\ jobs[j].status = CANCELLED)

C5_Witness ==
  \E j \in Ids :
    /\ work[j].plan = "raise_E"
    /\ work[j].onCancel = "propagate"
    /\ cancelling[j]
    /\ cancelRet
    /\ InTable(j)
    /\ jobs[j].status = CANCELLED

\* C6: a cancel request issued while the job is still Pending (the wrapper
\* task has not taken its first step) leads to status Cancelled: the task of
\* such a job does not end while the status is anything else.
C6_CancelPendingJob ==
  [][\A j \in Ids :
       (tstate[j] = "created" /\ mustCancel[j] /\ tstate'[j] \in TaskDone)
         => (j \in DOMAIN jobs' /\ jobs'[j].status = CANCELLED)]_vars

\* C7: for a job whose record status is already Completed, Failed or
\* Cancelled, cancel_job returns false and leaves the status unchanged.
C7_CancelTerminalReturnsFalse ==
  [][\A j \in Ids :
       (InTable(j) /\ jobs[j].status \in Terminal /\ CancelJob(j))
         => (cancelRet' = FALSE /\ mustCancel'[j] = mustCancel[j])]_vars

\* C8: after shutdown() returns, every job that was Pending or Running when
\* shutdown was called has status Cancelled.
C8_ShutdownCancelsActiveJobs ==
  shutPc = "returned"
    => \A j \in shutActive : InTable(j) /\ jobs[j].status = CANCELLED

\* C9: every job's progress lies in [0.0, 1.0]; update_job(progress=p)
\* stores 1.0 for p > 1, 0.0 for p < 0 and p otherwise.
C9_ProgressClamped ==
  /\ [](\A j \in DOMAIN jobs :
          jobs[j].progress >= ProgressZero /\ jobs[j].progress <= ProgressOne)
  /\ [][\A j \in Ids : \A f \in CallerArgs :
          (CallerUpdateJob(j, f) /\ InTable(j) /\ "progress" \in DOMAIN f)
            => jobs'[j].progress =
                 (IF f.progress > ProgressOne THEN ProgressOne
                  ELSE IF f.progress < ProgressZero THEN ProgressZero
                  ELSE f.progress)]_vars

C9_Witness ==
  \E j \in DOMAIN jobs :
    /\ updCount > 0
    /\ jobs[j].status \in {PENDING, RUNNING}
    /\ jobs[j].progress = ProgressOne

\* C10: an update_job call for a job whose status is already Completed,
\* Failed or Cancelled leaves status, progress, message, result and error
\* as they were.
C10_UpdateAfterTerminalIgnored ==
  [][\A j \in Ids : \A f \in CallerArgs :
       (InTable(j) /\ jobs[j].status \in Terminal /\ CallerUpdateJob(j, f))
         => /\ jobs'[j].status = jobs[j].status
            /\ jobs'[j].progress = jobs[j].progress
            /\ jobs'[j].message = jobs[j].message
            /\ jobs'[j].result = jobs[j].result
            /\ jobs'[j].error = jobs[j].error]_vars

\* the edges of the job state machine, as the wrapper task walks them
StateMachineEdges ==
  {<<PENDING, RUNNING>>, <<RUNNING, COMPLETED>>, <<RUNNING, FAILED>>,
   <<RUNNING, CANCELLED>>}
\* what one step of the wrapper can make of them: it may go through Running
\* and reach a terminal status without suspending in between
StateMachinePaths ==
  StateMachineEdges \cup {<<PENDING, t>> : t \in Terminal}

\* C11: under any sequence of operations, update_job calls by callers
\* included, every change of a job's status follows the state machine
\* Pending -> Running -> Completed | Failed | Cancelled, and an update_job
\* call made by a caller changes a status only along one of its edges.
C11_StatusFollowsStateMachine ==
  [][\A j \in Ids :
       (InTable(j) /\ j \in DOMAIN jobs' /\ jobs'[j].status # jobs[j].status)
         => /\ <<jobs[j].status, jobs'[j].status>> \in StateMachinePaths
            /\ (\E f \in CallerArgs : CallerUpdateJob(j, f))
                 => <<jobs[j].status, jobs'[j].status>> \in StateMachineEdges
    ]_vars

\* C12: cleanup_completed_jobs(max_age) removes exactly the records that are
\* Completed, Failed or Cancelled and whose updated_at is more than max_age
\* old, removes their task handle and callback list with them, returns the
\* number removed, leaves every other record, handle and list as it was (a
\* Pending or Running record stays whatever its age), and get_job of a
\* removed id then returns none (InTable(j) says get_job(j) finds a record).
C12_CleanupRemovesOldTerminal ==
  [][\A a \in 0..MaxTime :
       Cleanup(a) =>
         /\ \A j \in DOMAIN jobs :
              (~InTable(j)')
                <=> (jobs[j].status \in Terminal
                       /\ now - jobs[j].updated_at > a)
         /\ \A j \in DOMAIN jobs :
              jobs[j].status \in {PENDING, RUNNING}
                => (InTable(j)' /\ jobs'[j] = jobs[j])
         /\ \A j \in DOMAIN jobs \ DOMAIN jobs' :
              j \notin tasks' /\ j \notin DOMAIN callbacks'
         /\ \A j \in DOMAIN jobs' :
              /\ jobs'[j] = jobs[j]
              /\ (j \in tasks') = (j \in tasks)
              /\ j \in DOMAIN callbacks' /\ callbacks'[j] = callbacks[j]
         /\ cleanupRet' = Cardinality(DOMAIN jobs \ DOMAIN jobs')
    ]_vars

C12_Witness ==
  \E j \in Ids :
    /\ Created(j)
    /\ cleanupRet = 1
    /\ ~InTable(j)
    /\ j \notin tasks
    /\ j \notin DOMAIN callbacks

\* the status each update_job call of the wrapper writes before its callbacks
PhaseStatus(ph) ==
  CASE ph = "cb_running" -> RUNNING
    [] ph = "cb_completed" -> COMPLETED
    [] ph = "cb_failed" -> FAILED
    [] ph = "cb_cancelled" -> CANCELLED

\* C13: when update_job starts invoking callbacks its mutation is already
\* visible to get_job; the manager lock is free whenever a callback is
\* suspended; and while a callback of job A is suspended, an update_job call
\* on another stored job B can take the lock and complete.
C13_CallbacksRunOutsideLock ==
  /\ [][\A j \in Ids :
          (tstate'[j] \in CallbackPhase /\ tstate'[j] # tstate[j])
            => (InTable(j)' /\ jobs'[j].status = PhaseStatus(tstate'[j]))
       ]_vars
  /\ []((\E j \in Ids : tstate[j] \in CallbackPhase) => lock = 0)
  /\ [](\A a \in Ids, b \in Ids, f \in CallerArgs :
          (a # b /\ tstate[a] \in CallbackPhase /\ InTable(b)
             /\ updCount < MaxCallerUpdates)
            => ENABLED CallerUpdateJob(b, f))

C13_Witness ==
  \E a \in Ids, b \in Ids :
    /\ a # b
    /\ tstate[a] \in CallbackPhase
    /\ InTable(b)
    /\ updCount > 0
    /\ jobs[b].message = "m"

\* callback i of job j has been invoked with the record in status st
SeenWith(j, i, st) == \E k \in DOMAIN seen[j] : seen[j][k] = <<i, st>>

\* C14: when a registered callback raises, every callback registered for the
\* job is still invoked for that update (the Running update once the wrapper
\* is past it, the last update once the wrapper has ended), and the record
\* is unaffected: work that returns never gives status Failed or an error,
\* and without a cancellation it ends Completed with progress 1.0.
C14_FailingCallbackIsIsolated ==
  \A j \in Ids :
    (Created(j) /\ failIdx[j] # 0) =>
      /\ tstate[j] \in {"work", "cb_completed", "cb_failed", "cb_cancelled",
                        "finished"}
           => \A i \in 1..callbacks[j] : SeenWith(j, i, RUNNING)
      /\ tstate[j] = "finished"
           => \A i \in 1..callbacks[j] : SeenWith(j, i, jobs[j].status)
      /\ work[j].plan \in {"return_V", "return_None"}
           => (jobs[j].status # FAILED /\ jobs[j].error = None)
      /\ (tstate[j] = "finished" /\ ~cancelling[j]
            /\ work[j].plan \in {"return_V", "return_None"})
           => /\ jobs[j].status = COMPLETED
              /\ jobs[j].progress = ProgressOne
              /\ jobs[j].result = RetVal(work[j].plan)

C14_Witness ==
  \E j \in Ids :
    /\ failIdx[j] = 1
    /\ callbacks[j] = MaxCallbacks
    /\ tstate[j] = "finished"
    /\ jobs[j].status = COMPLETED
    /\ seen[j] = <<<<1, RUNNING>>, <<2, RUNNING>>,
                   <<1, COMPLETED>>, <<2, COMPLETED>>>>

\* callback i of job j was invoked with status Running and, later, with
\* status Completed
RunningThenCompleted(j, i) ==
  \E k1 \in DOMAIN seen[j], k2 \in DOMAIN seen[j] :
    /\ k1 < k2
    /\ seen[j][k1] = <<i, RUNNING>>
    /\ seen[j][k2] = <<i, COMPLETED>>

\* C15: for a job whose work returned normally (the wrapper made its
\* Completed update, the only one that stores progress 1.0), once the
\* wrapper task has ended every callback registered at creation has been
\* invoked with the record Running and later with the record Completed.
C15_CallbackSeesRunningThenCompleted ==
  \A j \in Ids :
    (tstate[j] \in TaskDone /\ recording[j] /\ InTable(j)
       /\ work[j].plan \in {"return_V", "return_None"}
       /\ jobs[j].progress = ProgressOne)
      => \A i \in 1..callbacks[j] : RunningThenCompleted(j, i)

\* C16: get_jobs_by_user(A) returns exactly the stored jobs that create_job
\* was called for with user_id A, and so never a job of another principal.
C16_JobsByUserAreTheOwners ==
  \A u \in Users :
    GetJobsByUser(u) = {j \in Ids : InTable(j) /\ owner[j] = u}

C16_Witness ==
  \E a \in Ids, b \in Ids :
    /\ owner[a] = "A" /\ owner[b] = "B"
    /\ InTable(a) /\ InTable(b)
    /\ jobs[a].status \in Terminal
    /\ GetJobsByUser("A") = {a}
    /\ GetJobsByUser("B") = {b}

\* C17: get_active_jobs() returns exactly the stored jobs whose status is
\* Pending or Running: no stored job with status Completed, Failed or
\* Cancelled is in the result and every other stored job is.
C17_ActiveJobsAreTheNonTerminal ==
  /\ GetActiveJobs \subseteq DOMAIN jobs
  /\ \A j \in DOMAIN jobs :
       /\ jobs[j].status \in Terminal => j \notin GetActiveJobs
       /\ jobs[j].status \notin Terminal => j \in GetActiveJobs

C17_Witness ==
  \E a \in Ids, b \in Ids :
    /\ InTable(a) /\ InTable(b)
    /\ jobs[a].status = CANCELLED
    /\ jobs[b].status = RUNNING
    /\ a \notin GetActiveJobs
    /\ b \in GetActiveJobs

\* C18: cancel_job returns true exactly when it delivered a stop signal to
\* an execution whose handle is stored and that has not finished; for an
\* unknown id and for an execution that has finished it returns false and
\* signals nothing.
C18_CancelReturnsWhetherItSignalled ==
  [][\A j \in Ids :
       CancelJob(j) =>
         /\ cancelRet' => (j \in tasks /\ tstate[j] \notin TaskDone
                             /\ mustCancel'[j] /\ cancelling'[j])
         /\ ~cancelRet' => ((j \notin tasks \/ tstate[j] \in TaskDone)
                              /\ mustCancel' = mustCancel
                              /\ cancelling' = cancelling)
         /\ \A k \in Ids \ {j} : mustCancel'[k] = mustCancel[k]
    ]_vars

C18_Witness ==
  \E j \in Ids :
    /\ cancelRet
    /\ tstate[j] = "work"
    /\ mustCancel[j]

\* C19: the job-record table and the task-handle table are written only
\* while the manager's lock is held: no step of create_job, update_job,
\* cleanup_completed_jobs or shutdown has written either of them without it.
C19_TablesWrittenUnderLock ==
  unlocked \cap {"jobs", "tasks"} = {}

Derived == gpPc = "returned" /\ gpRet.stage # StageFailed

\* C21 as stated: with the completion flag true the snapshot has stage
\* Completed and progress_percent 100 whatever the stage string and the
\* model count are; with the flag false and a stage string that contains
\* "modeling" in any letter case the stage is Modeling.
C21_ModelingHintIsModeling ==
  Derived =>
    /\ gpProject.done => /\ gpRet.stage = StageCompleted
                         /\ gpRet.progress_percent = PercentDone
    /\ (~gpProject.done /\ IsSubstring(KeyModeling, Lower(gpProject.stage)))
         => gpRet.stage = StageModeling

\* C21 amended: with the completion flag true the snapshot has stage
\* Completed and progress_percent 100 whatever the stage string and the
\* model count are; with the flag false and a stage string that contains
\* "modeling" and does not contain "eda", in any letter case, the stage is
\* Modeling.
C21_ModelingHintWithoutEdaIsModeling ==
  Derived =>
    /\ gpProject.done => /\ gpRet.stage = StageCompleted
                         /\ gpRet.progress_percent = PercentDone
    /\ (/\ ~gpProject.done
        /\ IsSubstring(KeyModeling, Lower(gpProject.stage))
        /\ ~IsSubstring(KeyEda, Lower(gpProject.stage)))
         => gpRet.stage = StageModeling

\* a run that is not done and reports "aim:ModelinG" is in stage Modeling
C21_Witness ==
  /\ Derived
  /\ ~gpProject.done
  /\ gpProject.stage = WordAim \o <<":">> \o WordModelingMixed
  /\ gpRet.stage = StageModeling

\* the token table of the claim and the stage paired with each token
TokenTable == <<KeyEda, KeyModeling, KeyFitting, KeyFeature, KeyComplete>>
TokenStage ==
  <<StageEda, StageModeling, StageModeling, StageFeature, StageCompleted>>
\* the entries of the table that occur in s once lower-cased
Matching(s) ==
  {i \in DOMAIN TokenTable : IsSubstring(TokenTable[i], Lower(s))}

\* C22: when the completion flag is false the snapshot's stage is the one
\* paired with the first entry of the table (eda, modeling, fitting,
\* feature, complete) that is a case-insensitive substring of the stage
\* string, and Preparing when no entry is.
C22_FirstMatchingTokenDecides ==
  (Derived /\ ~gpProject.done) =>
    LET hits == Matching(gpProject.stage)
    IN  IF hits = {} THEN gpRet.stage = StagePreparing
        ELSE \E i \in hits : /\ \A k \in hits : i <= k
                             /\ gpRet.stage = TokenStage[i]

\* "fitting:completed" matches the third and the fifth entry: the third
\* decides
C22_Witness ==
  /\ Derived
  /\ ~gpProject.done
  /\ gpProject.stage = WordFitting \o <<":">> \o WordCompleted
  /\ Matching(gpProject.stage) = {3, 5}
  /\ gpRet.stage = StageModeling

\* C23: a snapshot reports progress_percent 100 only when the completion
\* flag is true; otherwise it is min(models_completed / total * 100, 99),
\* total being the reported count or 20 when that is absent or zero, and so
\* lies in 0..99 even when models_completed exceeds total.
C23_PercentIsCappedUntilDone ==
  Derived =>
    LET p == gpRet.progress_percent
        m == gpRet.models_completed
        t == IF gpProject.target = 0 THEN 20 ELSE gpProject.target
    IN  /\ p = 100 => gpProject.done
        /\ ~gpProject.done =>
             /\ p >= 0 /\ p <= 99
             /\ IF m * 100 >= 99 * t THEN p = 99
                ELSE p * t <= m * 100 /\ m * 100 < (p + 1) * t

\* two models of a run that targets one: more than all of them, and 99
C23_Witness ==
  /\ Derived
  /\ ~gpProject.done
  /\ gpProject.target = 1
  /\ gpRet.models_completed = 2
  /\ gpRet.progress_percent = 99

\* the loop of monitor_until_complete has returned a snapshot
LoopReturned == monKind = "until_complete" /\ monRet # NoProgress

\* C24: monitor_until_complete repeats fetch, update_job(progress =
\* percent/100, message), optional callback, sleep; it returns exactly when
\* a fetched snapshot has stage Completed or Failed (it sleeps after every
\* other snapshot), and the snapshot it returns is the last one fetched and
\* was pushed to the job manager before the return.
C24_LoopReturnsLastPushedTerminalSnapshot ==
  monKind = "until_complete" =>
    /\ LoopReturned =>
         /\ monRet = gpRet
         /\ monRet.stage \in {StageCompleted, StageFailed}
         /\ monPushes = monFetches
         /\ monPushed.progress * 100 = monRet.progress_percent * ProgressOne
         /\ monPushed.message = <<monRet.stage, monRet.models_completed,
                                  monRet.total_models>>
    /\ monPc = "sleep" =>
         /\ gpRet.stage \notin {StageCompleted, StageFailed}
         /\ ~LoopReturned
         /\ monPushes = monFetches
         /\ monPushed.progress * 100 = gpRet.progress_percent * ProgressOne
    /\ (monPc \in {"sleep", "close"} /\ monPushes > 0 /\ InTable(monTarget))
         => /\ jobs[monTarget].progress = monPushed.progress
            /\ jobs[monTarget].message = monPushed.message

\* the loop has returned the Completed snapshot of its second poll and the
\* job record holds what was pushed
C24_Witness ==
  /\ LoopReturned
  /\ monPc = "close"
  /\ monFetches = 2
  /\ monRet.stage = StageCompleted
  /\ monTarget = monJob
  /\ jobs[monJob].progress = ProgressOne
  /\ jobs[monJob].message = <<StageCompleted, 1, 4>>

\* C25: a cancellation delivered to a monitoring loop suspended in its
\* sleep or in a query of a fetch ends the loop; no fetch and no progress
\* update follows, and once the coroutine has ended the job is Cancelled.
C25_CancelledLoopStopsAndJobIsCancelled ==
  /\ [][\A j \in Ids :
          (MonCancelled(j) /\ monPc \in {"sleep", "fetch"})
            => /\ monExit' = "cancelled"
               /\ monPc' \in {"close", "exited"}
               /\ monFetches' = monFetches
               /\ monPushes' = monPushes]_vars
  /\ [][monExit = "cancelled"
          => /\ monExit' = "cancelled"
             /\ monFetches' = monFetches
             /\ monPushes' = monPushes]_vars
  /\ []((monExit = "cancelled" /\ monPc = "exited")
          => InTable(monJob) /\ jobs[monJob].status = CANCELLED)

\* a loop with no callbacks at all was cancelled in its sleep after one
\* round, and the job is Cancelled
C25_Witness ==
  /\ monKind = "until_complete"
  /\ monOnProgress = "none"
  /\ monJob \in DOMAIN callbacks /\ callbacks[monJob] = 0
  /\ monExit = "cancelled"
  /\ monPc = "exited"
  /\ gpPc = "returned"
  /\ monFetches = 1 /\ monPushes = 1
  /\ jobs[monJob].status = CANCELLED

\* C26: once a monitoring task has exited, by return, by an exception or by
\* cancellation, the client it created is not open.
C26_ExitedMonitorHasNoOpenClient ==
  (monJob # 0 /\ (monPc = "exited" \/ tstate[monJob] \in TaskDone))
    => monClient # "open"

\* the monitoring task of the route was cancelled during a query and its
\* client is closed
C26_Witness ==
  /\ monKind = "route"
  /\ monExit = "cancelled"
  /\ gpPc = "raised"
  /\ tstate[monJob] \in TaskDone
  /\ monClient = "closed"

\* the remaining-time estimate of the snapshot, read as the claim states it:
\* the whole seconds of max(elapsed / (progress_percent/100) - elapsed, 0)
EstimateIs(n, e, p) ==
  LET x == IF e * (100 - p) > 0 THEN e * (100 - p) ELSE 0
  IN  n >= 0 /\ n * p <= x /\ x < (n + 1) * p

\* C27 as stated: the remaining-time estimate is none when progress_percent
\* <= 0, and for every progress_percent > 0 it is a non-negative integer,
\* max(elapsed / (progress_percent/100) - elapsed, 0), 0 at 100.
C27_EstimateIsSetForPositivePercent ==
  Derived =>
    LET pc == gpRet.progress_percent
        r == gpRet.estimated_time_remaining
    IN  /\ pc <= 0 => r = {}
        /\ pc > 0 =>
             /\ r # {}
             /\ \A n \in r :
                  /\ n >= 0
                  /\ gpProject.created.kind = "iso"
                       => EstimateIs(n, gpProject.created.ago, pc)
                  /\ pc = 100 => n = 0

\* C27 amended: the remaining-time estimate is none when progress_percent
\* <= 0 or the project's creation time is absent or unparsable; for every
\* progress_percent > 0 with a creation time it is a non-negative integer,
\* the whole seconds of max(elapsed / (progress_percent/100) - elapsed, 0),
\* which is 0 at progress_percent 100.
C27_EstimateIsSetForPositivePercentWithStartTime ==
  Derived =>
    LET pc == gpRet.progress_percent
        r == gpRet.estimated_time_remaining
    IN  /\ (pc <= 0 \/ gpProject.created.kind # "iso") => r = {}
        /\ (pc > 0 /\ gpProject.created.kind = "iso") =>
             /\ r # {}
             /\ \A n \in r :
                  /\ EstimateIs(n, gpProject.created.ago, pc)
                  /\ pc = 100 => n = 0

\* a run created 7 s ago with 1 of 4 models: 21 s remain
C27_Witness ==
  /\ Derived
  /\ gpProject.created = [kind |-> "iso", ago |-> 7]
  /\ gpRet.progress_percent = 25
  /\ gpRet.estimated_time_remaining = {21}

\* C28: through the API a principal never reads and never cancels a job of
\* another principal: a request by id for a job the principal does not own
\* is refused, nothing of the job is returned and no cancel signal is sent;
\* every job in a list returned to a principal is owned by that principal.
C28_NonOwnerNeitherReadsNorCancels ==
  [][\A u \in Users :
       /\ \A j \in DOMAIN jobs :
            (/\ jobs[j].user_id # u
             /\ HandleRequest(u, GetJobById(j))
                  \/ HandleRequest(u, PostCancel(j)))
              => /\ apiRet'.code = 403
                 /\ apiRet'.body = {}
                 /\ ~apiRet'.called
                 /\ mustCancel' = mustCancel
                 /\ cancelling' = cancelling
       /\ \A req \in {GetJobs, GetActive} :
            (apiRet'.body # {} /\ HandleRequest(u, req))
              => \A j \in apiRet'.body : jobs[j].user_id = u
    ]_vars

\* a cancel request by a non-owner was refused while a job of the other
\* principal runs with no cancellation pending
C28_Witness ==
  /\ apiRet = Response("cancel_job", 403, {}, FALSE)
  /\ \E j \in DOMAIN jobs :
       /\ jobs[j].user_id = "B"
       /\ jobs[j].status = RUNNING
       /\ ~cancelling[j]
       /\ \A k \in DOMAIN jobs : jobs[k].user_id = "B"

\* C29: a cancel request for a job whose status is Completed, Failed or
\* Cancelled is rejected without a call of the manager's cancel_job: with
\* the invalid-state error (400) when the owner asks, and with 403 before
\* the status is looked at when another principal does.
C29_CancelOfTerminalJobIsRejected ==
  [][\A u \in Users : \A j \in DOMAIN jobs :
       (jobs[j].status \in Terminal /\ HandleRequest(u, PostCancel(j)))
         => /\ ~apiRet'.called
            /\ UNCHANGED <<mustCancel, cancelling, cancelRet>>
            /\ apiRet'.code = IF jobs[j].user_id = u THEN 400 ELSE 403
    ]_vars

\* the owner's cancel request for a finished job got the invalid-state error
C29_Witness ==
  /\ apiRet = Response("cancel_job", 400, {}, FALSE)
  /\ \E j \in DOMAIN jobs : jobs[j].status = COMPLETED

\* C30: a GET request for /jobs/active is dispatched to list_active_jobs
\* and answered with exactly the Pending and Running jobs of the calling
\* principal.
C30_GetActiveReachesListActiveJobs ==
  [][\A u \in Users :
       HandleRequest(u, GetActive)
         => /\ apiRet'.handler = "list_active_jobs"
            /\ apiRet'.code = 200
            /\ apiRet'.body =
                 {j \in DOMAIN jobs : /\ jobs[j].status \in {PENDING, RUNNING}
                                      /\ jobs[j].user_id = u}
    ]_vars

\* C31: create_job stores a Pending record and returns the new id without
\* running the work: right after the call get_job(id) finds the record
\* with status Pending, its task has been scheduled and has taken no step;
\* the step in which the task enters the work has already moved the record
\* to Running, so the record is never Pending while the work is suspended
\* or when a step of the work has run.
C31_WorkNeverRunsWhilePending ==
  /\ [][nextId' # nextId
          => /\ nextId \in DOMAIN jobs'
             /\ jobs'[nextId].status = PENDING
             /\ nextId \in tasks'
             /\ tstate'[nextId] = "created"
             /\ \A k \in DOMAIN jobs : jobs'[k] = jobs[k]]_vars
  /\ [][\A j \in Ids :
          (tstate[j] = "created" /\ tstate'[j] \notin {"created", "cancelled"})
            => (InTable(j)' /\ jobs'[j].status # PENDING)]_vars
  /\ [](\A j \in Ids :
          (tstate[j] \in {"work", "cb_completed", "cb_failed"} /\ InTable(j))
            => jobs[j].status # PENDING)

\* the work of a job is suspended, the record is Running and no
\* cancellation was requested
C31_Witness ==
  \E j \in Ids :
    /\ tstate[j] = "work"
    /\ InTable(j)
    /\ jobs[j].status = RUNNING
    /\ ~cancelling[j]

\* the fields of a JobInfo that no operation of the manager writes
ImmutableFields == {"job_id", "job_type", "user_id", "created_at", "metadata"}

\* C32: update_job on job J changes only the fields of J it was passed (and
\* updated_at): the other fields of J, among them job_id, job_type,
\* user_id, created_at and metadata, and every field of every other job
\* are as before, and no record is added or removed; a call for an unknown
\* id changes no record.  A step of a wrapper task, which makes the
\* update_job calls of its own job, leaves the other records and the
\* immutable fields of its own record as they were.
C32_UpdateChangesOnlyPassedFields ==
  /\ [][\A j \in Ids, f \in CallerArgs :
          CallerUpdateJob(j, f)
            => /\ DOMAIN jobs' = DOMAIN jobs
               /\ \A k \in DOMAIN jobs \ {j} : jobs'[k] = jobs[k]
               /\ InTable(j)
                    => \A x \in DOMAIN jobs[j] \ (DOMAIN f \cup {"updated_at"}) :
                         jobs'[j][x] = jobs[j][x]]_vars
  /\ [][\A j \in Ids :
          TaskRun(j)
            => /\ DOMAIN jobs' = DOMAIN jobs
               /\ \A k \in DOMAIN jobs \ {j} : jobs'[k] = jobs[k]
               /\ InTable(j)
                    => \A x \in ImmutableFields : jobs'[j][x] = jobs[j][x]]_vars

\* a caller's update_job(progress=0.5, message="m") on a Running job left
\* its status alone while another job sits in the table untouched
C32_Witness ==
  \E a \in DOMAIN jobs, b \in DOMAIN jobs :
    /\ a # b
    /\ updCount > 0
    /\ jobs[a].status = RUNNING
    /\ jobs[a].progress = 50
    /\ jobs[a].message = "m"
    /\ jobs[a].job_id = a
    /\ jobs[b].status = RUNNING
    /\ jobs[b].message = ""

\* every task shutdown() gathers is done
AllGathered == \A j \in shutTasks : tstate[j] \in TaskDone

\* C33: shutdown() never raises, whatever way the tasks it gathers end
\* (returned, failed, cancelled, also cancelled while unwinding); it stops
\* waiting only by returning, and only when every task it gathers is done;
\* and once they are all done it does return.
C33_ShutdownWaitsForEveryTask ==
  /\ [](shutPc \in {"idle", "waiting", "returned"})
  /\ [][(shutPc = "waiting" /\ shutPc' # "waiting")
          => (shutPc' = "returned" /\ AllGathered)]_vars
  /\ []((shutPc = "waiting" /\ AllGathered) => ENABLED ShutdownReturn)
  /\ (shutPc = "waiting") ~> (shutPc = "returned")

\* shutdown() has returned after gathering a task that ended cancelled and
\* a task whose work raised
C33_Witness ==
  /\ shutPc = "returned"
  /\ \E a \in shutTasks, b \in shutTasks :
       /\ tstate[a] = "cancelled"
       /\ tstate[b] = "finished"
       /\ jobs[b].status = FAILED

\* C34: a callback registered as on_complete (here: of a job created with
\* both on_progress and on_complete) is invoked when the job completes, and
\* is never invoked with the record in another status, as on the Running
\* transition.
C34_OnCompleteInvokedOnlyOnCompletion ==
  \A j \in Ids :
    (recording[j] /\ j \in DOMAIN callbacks /\ callbacks[j] = MaxCallbacks)
      => /\ \A k \in DOMAIN seen[j] :
              seen[j][k][1] = OnCompleteIndex => seen[j][k][2] = COMPLETED
         /\ (tstate[j] = "finished" /\ InTable(j)
               /\ jobs[j].status = COMPLETED)
              => SeenWith(j, OnCompleteIndex, COMPLETED)

\* C35: in every reachable state a job whose task is done (finished or
\* cancelled) has status Completed, Failed or Cancelled: no job is left
\* Pending or Running after its execution has ended.
C35_DoneTaskHasTerminalStatus ==
  \A j \in Ids :
    (tstate[j] \in TaskDone /\ InTable(j)) => jobs[j].status \in Terminal

\* C36: each callback invocation observes the record as written by the
\* update that triggered it: when a callback of the wrapper's update is
\* suspended and another update_job on the same job interleaves, the
\* callbacks that update still has to invoke see the status it wrote
\* (PhaseStatus of the phase the wrapper is in), not the later one.
C36_CallbackSeesItsOwnUpdate ==
  [][\A j \in Ids :
       (tstate[j] \in CallbackPhase /\ CallbackResume(j))
         => \A i \in 1..Min(cbLen[j] - cbIdx[j],
                             Len(seen'[j]) - Len(seen[j])) :
              seen'[j][Len(seen[j]) + i][2] = PhaseStatus(tstate[j])]_vars

\* a monitoring job has ended after its loop returned a snapshot of stage
\* Failed, and no cancellation was requested while its task ran
FailedSnapshotJobEnded ==
  /\ monJob \in Ids
  /\ tstate[monJob] = "finished"
  /\ ~cancelling[monJob]
  /\ monExit = "returned"
  /\ monRet.stage = StageFailed

\* C37 as stated: a monitoring job whose final snapshot has stage Failed
\* ends in status Completed with progress 1.0, result set to that snapshot
\* and error unset.
C37_FailedSnapshotJobCompletesWithSnapshot ==
  FailedSnapshotJobEnded
    => /\ jobs[monJob].status = COMPLETED
       /\ jobs[monJob].progress = ProgressOne
       /\ jobs[monJob].result = monRet
       /\ jobs[monJob].error = None

\* C37, amended: such a job ends in status Completed (not Failed) with
\* progress 1.0 and error unset; its result is what the monitoring
\* coroutine returned: that snapshot for monitor_until_complete, and for
\* monitor_task of the route the dict of project id, stage value "failed"
\* and models_completed made from it.
C37_FailedSnapshotJobCompletesWithReturnValue ==
  FailedSnapshotJobEnded
    => /\ jobs[monJob].status = COMPLETED
       /\ jobs[monJob].progress = ProgressOne
       /\ jobs[monJob].error = None
       /\ monKind = "until_complete" => jobs[monJob].result = monRet
       /\ monKind = "route"
            => jobs[monJob].result =
                 [project_id |-> ProjectId, status |-> StageFailed,
                  models_completed |-> monRet.models_completed]

\* a job running monitor_until_complete on its own record ended Completed
\* after a fetch failed on the second poll
C37_Witness ==
  /\ FailedSnapshotJobEnded
  /\ monKind = "until_complete"
  /\ monTarget = monJob
  /\ monFetches = 2
  /\ monRet.error_message = "status error"
  /\ jobs[monJob].status = COMPLETED
  /\ jobs[monJob].result = monRet

\* C38: a monitoring loop returns a snapshot with stage Completed only when
\* the completion flag of the project was true in that fetch: every
\* returned snapshot with stage Completed has progress_percent 100.
C38_ReturnedCompletedSnapshotIsDone ==
  (monExit = "returned" /\ monRet.stage = StageCompleted)
    => /\ gpProject.done
       /\ monRet.progress_percent = PercentDone

\* monitor_until_complete has fetched a snapshot with stage Failed
FailedFetched == monKind = "until_complete" /\ gpRet.stage = StageFailed

\* C39: monitor_until_complete never retries after a failed fetch: the
\* step that receives the first snapshot with stage Failed pushes it to the
\* job manager (progress 0.0), so that every fetch has been pushed once;
\* from then on there is no further fetch and no further push, whatever
\* snapshots preceded it; and the coroutine, unless it is cancelled or its
\* on_progress callback raises, ends by returning that snapshot.
C39_NoRetryAfterFailedFetch ==
  /\ [](FailedFetched
          => /\ monPushes = monFetches
             /\ monPushed = [progress |-> ProgressZero,
                             message |-> <<StageFailed, 0, 0>>]
             /\ monPc \notin {"sleep", "fetch"})
  /\ [][FailedFetched
          => /\ gpRet' = gpRet
             /\ monFetches' = monFetches
             /\ monPushes' = monPushes
             /\ monPushed' = monPushed]_vars
  /\ []((FailedFetched /\ monPc = "exited" /\ ~cancelling[monJob]
           /\ monOnProgress # "raises")
          => (monExit = "returned" /\ monRet = gpRet))

\* the second fetch of a loop failed after a first snapshot that was not
\* terminal; both were pushed and the loop returned the Failed one
C39_Witness ==
  /\ FailedFetched
  /\ monFetches = 2
  /\ monPushes = 2
  /\ monPc = "exited"
  /\ monExit = "returned"
  /\ monRet.stage = StageFailed
  /\ monPushed.progress = ProgressZero

\* C40: cleanup_completed_jobs never removes the record, the task handle
\* or the callback list of a job whose task is not done (for one, a task
\* still awaiting a callback of its last update): every task that is not
\* done keeps its entry in _jobs, _tasks and _callbacks, so cancel_job
\* reaches it and shutdown() gathers it.
C40_CleanupSparesRunningTasks ==
  \A j \in Ids :
    (Created(j) /\ tstate[j] \notin TaskDone)
      => /\ InTable(j)
         /\ j \in tasks
         /\ j \in DOMAIN callbacks

====
